---- MODULE Spec2Model ----
(***************************************************************************)
(* A model of the IndieAuth client helper (grantcodes/indieauth-helper):   *)
(* the IndieAuth class of src/src/main.js (the TypeScript class, lines     *)
(* 461-1026), the state codec of src/src/lib/state.ts and the URL          *)
(* validator of src/src/lib/validate-url.ts.                               *)
(*                                                                         *)
(* A JavaScript string is a sequence of lexical tokens (TLA+ strings):     *)
(* 'https://example.com/' is <<"https:", "/", "/", "example.com", "/">>,   *)
(* the empty string is << >>.  A JavaScript value is a record              *)
(* [t, s, n]: its typeof tag, its string content and its numeric content.  *)
(* A JavaScript object is the sequence of its <<key, value>> entries in    *)
(* insertion order.                                                        *)
(***************************************************************************)
EXTENDS Integers, Sequences, FiniteSets, TLC

VARIABLES
  phase,     \* "new" before the constructor ran, "ready" after it returned, "failed" after it threw
  this,      \* the instance's private fields _me, _clientId, ... (main.js 484-491)
  now,       \* Date.now(), in milliseconds since the start of the run
  ticks,     \* how many times the clock has advanced
  pending,   \* the asynchronous call suspended at its fetch, or NoCall
  held,      \* the state string the caller got from generateState and keeps, with its origin
  given,     \* the arguments drawn for the direct calls of the codec of lib/state.ts
  flights,   \* the overlapping getRelsFromUrl calls: how far each has got
  issued,    \* the code challenges getAuthUrl has sent so far, each with its code verifier
  last       \* the call that completed last: its inputs and its outcome

vars == <<phase, this, now, ticks, pending, held, given, flights, issued, last>>

-----------------------------------------------------------------------------
(* Bounds of the model                                                     *)

MaxTicks == 2      \* the clock advances at most this many times

-----------------------------------------------------------------------------
(* JavaScript values                                                       *)

Str(s) == [t |-> "string", s |-> s, n |-> 0]
Num(n) == [t |-> "number", s |-> << >>, n |-> n]
Undefined == [t |-> "undefined", s |-> << >>, n |-> 0]

Null == [t |-> "null", s |-> << >>, n |-> 0]

\* typeof v
TypeOf(v) == IF v.t = "null" THEN "object" ELSE v.t

\* String(v), as `new URL(v)` converts its argument
StringOf(v) ==
  IF v.t = "null" THEN <<"null">>
  ELSE IF v.t = "undefined" THEN <<"undefined">>
  ELSE v.s

\* obj[key] on an object given as its entries: the value of the last entry
\* with that key, undefined when there is none
RECURSIVE Get(_, _)
Get(obj, key) ==
  IF obj = << >> THEN Undefined
  ELSE IF obj[Len(obj)][1] = key THEN obj[Len(obj)][2]
  ELSE Get(SubSeq(obj, 1, Len(obj) - 1), key)

\* Object.keys(obj)
Keys(obj) == {obj[i][1] : i \in 1..Len(obj)}

-----------------------------------------------------------------------------
(* URL parsing: the WHATWG URL parser behind `new URL(url)`, without a     *)
(* base URL, on the strings of this model.  A scheme is one token with its *)
(* colon ("https:"), or a name followed by the token ":".  Hosts are names *)
(* (no IP addresses), ports are numerals, paths hold no dot segments.      *)

SpecialSchemes == {"http:", "https:", "ftp:"}
Schemes == SpecialSchemes \cup {"htt:", "mailto:"}
Punctuation == {"/", ":", " ", "^", "[", "\"", "|", "{", "}", ",", "@", "?", "#", "=", "&", "+"}
Numerals == {"21", "80", "443", "8080"}

NoUrl == [ok |-> FALSE, protocol |-> "", hostname |-> "", port |-> "", pathname |-> << >>,
          href |-> << >>]

\* the default port of a scheme is dropped by the parser
DefaultPort(protocol) ==
  IF protocol = "http:" THEN "80" ELSE IF protocol = "https:" THEN "443"
  ELSE IF protocol = "ftp:" THEN "21" ELSE ""

\* the index of the first token of s that is in set, at or after i;
\* Len(s) + 1 when there is none
RECURSIVE FirstIn(_, _, _)
FirstIn(s, set, i) ==
  IF i > Len(s) THEN Len(s) + 1
  ELSE IF s[i] \in set THEN i
  ELSE FirstIn(s, set, i + 1)

\* the index of the last token of s equal to tok, 0 when there is none
RECURSIVE LastIndexOf(_, _)
LastIndexOf(s, tok) ==
  IF s = << >> THEN 0
  ELSE IF s[Len(s)] = tok THEN Len(s)
  ELSE LastIndexOf(SubSeq(s, 1, Len(s) - 1), tok)

\* s without its leading "/" tokens
RECURSIVE SkipSlashes(_)
SkipSlashes(s) == IF s # << >> /\ s[1] = "/" THEN SkipSlashes(Tail(s)) ELSE s

\* scheme state: the scheme a string starts with; ok is FALSE when it starts
\* with none (no scheme state without a base URL: failure)
SchemeOf(url) ==
  IF url # << >> /\ url[1] \in Schemes
  THEN [ok |-> TRUE, protocol |-> url[1], rest |-> Tail(url)]
  ELSE IF Len(url) >= 2 /\ url[1] \notin (Punctuation \cup Numerals) /\ url[2] = ":"
  THEN [ok |-> TRUE, protocol |-> url[1] \o ":", rest |-> SubSeq(url, 3, Len(url))]
  ELSE [ok |-> FALSE, protocol |-> "", rest |-> << >>]

\* authority, host and port states on what follows the slashes: credentials
\* up to the last "@", then host [":" [port]], up to the path
AuthorityParse(protocol, s) ==
  LET end == FirstIn(s, {"/", "?", "#"}, 1)
      authority == SubSeq(s, 1, end - 1)
      after == SubSeq(s, end, Len(s))
      at == LastIndexOf(authority, "@")
      hostport == SubSeq(authority, at + 1, Len(authority))
      special == protocol \in SpecialSchemes
      n == Len(hostport)
      hostOk == \/ n = 0 /\ at = 0 /\ ~special
                \/ /\ n \in 1..3
                   /\ hostport[1] \notin Punctuation
                   /\ n >= 2 => hostport[2] = ":"
                   /\ n = 3 => hostport[3] \in Numerals
      port == IF n = 3 /\ hostport[3] # DefaultPort(protocol) THEN hostport[3] ELSE ""
      pathEnd == FirstIn(after, {"?", "#"}, 1)
      path == SubSeq(after, 1, pathEnd - 1)
      pathname == IF path = << >> /\ special THEN <<"/">> ELSE path
      host == IF n = 0 THEN "" ELSE hostport[1]
  IN IF ~hostOk THEN NoUrl
     ELSE [ok |-> TRUE,
           protocol |-> protocol,
           hostname |-> host,
           port |-> port,
           pathname |-> pathname,
           href |-> <<protocol, "/", "/">> \o SubSeq(authority, 1, at)
                      \o (IF n = 0 THEN << >> ELSE <<host>>)
                      \o (IF port = "" THEN << >> ELSE <<":", port>>)
                      \o pathname \o SubSeq(after, pathEnd, Len(after))]

URLParse(url) ==
  LET scheme == SchemeOf(url)
      rest == scheme.rest
  IN IF ~scheme.ok THEN NoUrl
     ELSE IF scheme.protocol \in SpecialSchemes
     THEN AuthorityParse(scheme.protocol, SkipSlashes(rest))
     ELSE IF Len(rest) >= 2 /\ rest[1] = "/" /\ rest[2] = "/"
     THEN AuthorityParse(scheme.protocol, SubSeq(rest, 3, Len(rest)))
     ELSE \* a path without authority, or an opaque path
          [ok |-> TRUE, protocol |-> scheme.protocol, hostname |-> "", port |-> "",
           pathname |-> SubSeq(rest, 1, FirstIn(rest, {"?", "#"}, 1) - 1),
           href |-> <<scheme.protocol>> \o rest]

\* new URL(url).hostname; the caller checks that the URL parses
Hostname(url) == URLParse(url).hostname

-----------------------------------------------------------------------------
(* src/src/lib/validate-url.ts, the module main.js imports as             *)
(* './lib/validate-url': TRUE when it returns true, FALSE when it throws   *)
(* TypeError('Invalid URL')                                                *)

validateUrl(url) == URLParse(url).ok

-----------------------------------------------------------------------------
(* JSON.stringify and JSON.parse on objects whose values are strings and   *)
(* numbers.  The strings of the model hold no quote and no backslash, so   *)
(* nothing is escaped.                                                     *)

QUOTE == "\""
DigitTok == <<"0", "1", "2", "3", "4", "5", "6", "7", "8", "9">>
IsDigit(tok) == \E d \in 1..10 : DigitTok[d] = tok
DigitVal(tok) == (CHOOSE d \in 1..10 : DigitTok[d] = tok) - 1

\* String(n) for an integer n
RECURSIVE Digits(_)
Digits(n) ==
  IF n < 0 THEN <<"-">> \o Digits(-n)
  ELSE IF n < 10 THEN <<DigitTok[n + 1]>>
  ELSE Digits(n \div 10) \o <<DigitTok[(n % 10) + 1]>>

StringifyValue(v) ==
  IF v.t = "number" THEN Digits(v.n) ELSE <<QUOTE>> \o v.s \o <<QUOTE>>

RECURSIVE StringifyEntries(_)
StringifyEntries(obj) ==
  IF obj = << >> THEN << >>
  ELSE LET e == obj[1]
           rest == SubSeq(obj, 2, Len(obj))
       IN <<QUOTE, e[1], QUOTE, ":">> \o StringifyValue(e[2])
            \o (IF rest = << >> THEN << >> ELSE <<",">> \o StringifyEntries(rest))

JSONstringify(obj) == <<"{">> \o StringifyEntries(obj) \o <<"}">>

JsonFail == [ok |-> FALSE, obj |-> << >>]

\* the index of the first token equal to tok at or after i, 0 when none
RECURSIVE IndexOf(_, _, _)
IndexOf(text, tok, i) ==
  IF i > Len(text) THEN 0
  ELSE IF text[i] = tok THEN i
  ELSE IndexOf(text, tok, i + 1)

\* the index after the run of digits starting at i
RECURSIVE DigitsEnd(_, _)
DigitsEnd(text, i) ==
  IF i <= Len(text) /\ IsDigit(text[i]) THEN DigitsEnd(text, i + 1) ELSE i

RECURSIVE NumberOf(_)
NumberOf(digits) ==
  IF Len(digits) = 1 THEN DigitVal(digits[1])
  ELSE 10 * NumberOf(SubSeq(digits, 1, Len(digits) - 1)) + DigitVal(digits[Len(digits)])

\* a value starting at i: [ok, v, next]
ParseValue(text, i) ==
  IF i > Len(text) THEN [ok |-> FALSE, v |-> Undefined, next |-> i]
  ELSE IF text[i] = QUOTE
  THEN LET j == IndexOf(text, QUOTE, i + 1)
       IN IF j = 0 THEN [ok |-> FALSE, v |-> Undefined, next |-> i]
          ELSE [ok |-> TRUE, v |-> Str(SubSeq(text, i + 1, j - 1)), next |-> j + 1]
  ELSE IF IsDigit(text[i])
  THEN LET j == DigitsEnd(text, i)
       IN [ok |-> TRUE, v |-> Num(NumberOf(SubSeq(text, i, j - 1))), next |-> j]
  ELSE IF text[i] = "-" /\ i + 1 <= Len(text) /\ IsDigit(text[i + 1])
  THEN LET j == DigitsEnd(text, i + 1)
       IN [ok |-> TRUE, v |-> Num(0 - NumberOf(SubSeq(text, i + 1, j - 1))), next |-> j]
  ELSE [ok |-> FALSE, v |-> Undefined, next |-> i]

\* the members of an object from i on, up to the closing brace at the end
RECURSIVE ParseMembers(_, _, _)
ParseMembers(text, i, acc) ==
  IF /\ i + 3 <= Len(text)
     /\ text[i] = QUOTE
     /\ text[i + 1] # QUOTE
     /\ text[i + 2] = QUOTE
     /\ text[i + 3] = ":"
  THEN LET pv == ParseValue(text, i + 4)
           acc2 == Append(acc, <<text[i + 1], pv.v>>)
       IN IF ~pv.ok \/ pv.next > Len(text) THEN JsonFail
          ELSE IF text[pv.next] = "}" /\ pv.next = Len(text)
          THEN [ok |-> TRUE, obj |-> acc2]
          ELSE IF text[pv.next] = ","
          THEN ParseMembers(text, pv.next + 1, acc2)
          ELSE JsonFail
  ELSE JsonFail

\* JSON.parse(text): ok is FALSE when it throws a SyntaxError
JSONparse(text) ==
  IF Len(text) < 2 \/ text[1] # "{" THEN JsonFail
  ELSE IF Len(text) = 2 THEN (IF text[2] = "}" THEN [ok |-> TRUE, obj |-> << >>] ELSE JsonFail)
  ELSE ParseMembers(text, 2, << >>)

-----------------------------------------------------------------------------
(* CryptoJS.AES with a passphrase, symbolically: the ciphertext string is  *)
(* the OpenSSL header, the random salt, and the message sealed under the   *)
(* key; only the same key opens it.  crypto-js is a dependency, not code   *)
(* of this repository, and the bytes it computes for anything else are     *)
(* not modelled: they depend on the string and on the key, and what        *)
(* toString(Utf8) makes of them is an input of each call, one of the       *)
(* outcomes the library has: it throws 'Malformed UTF-8 data', returns the *)
(* empty string or returns a text that JSON.parse accepts and that has     *)
(* none of the keys of a state.  The input is drawn anew for every call:   *)
(* a token under another key and a string that is no token may fail        *)
(* differently, and so may two calls of either kind; nothing is assumed    *)
(* about how often each outcome occurs in either case.                     *)

Salts == {"salt1", "salt2"}
Garbage == {"malformed", "empty", "json"}

\* the text of a failed decryption that is well-formed
GarbageText(g) == IF g = "json" THEN <<"{", "}">> ELSE << >>
SEAL == "|"

AESencrypt(message, key, salt) == <<"U2FsdGVkX1", salt>> \o key \o <<SEAL>> \o message

IsCipher(c) == Len(c) >= 3 /\ c[1] = "U2FsdGVkX1" /\ IndexOf(c, SEAL, 3) # 0
CipherKey(c) == SubSeq(c, 3, IndexOf(c, SEAL, 3) - 1)
CipherMessage(c) == SubSeq(c, IndexOf(c, SEAL, 3) + 1, Len(c))

\* CryptoJS.AES.decrypt(c, key).toString(CryptoJS.enc.Utf8); g is what the
\* library makes of the bytes when key does not open c (an input of the
\* call, not a function of the case)
AESdecrypt(c, key, g) ==
  IF IsCipher(c) /\ CipherKey(c) = key
  THEN [ok |-> TRUE, text |-> CipherMessage(c)]
  ELSE IF g = "malformed" THEN [ok |-> FALSE, text |-> << >>]
  ELSE [ok |-> TRUE, text |-> GarbageText(g)]

-----------------------------------------------------------------------------
(* src/src/lib/state.ts                                                    *)

TIMEOUT == 1000 * 60 * 10

\* the state object built with me and clientId exchanged
generateState_Exchanged(clientId, secret, me, salt) ==
  LET state == << <<"date", Num(now)>>, <<"me", Str(clientId)>>, <<"clientId", Str(me)>> >>
      stateJson == JSONstringify(state)
  IN AESencrypt(stateJson, secret, salt)

\* generateState(clientId, secret, me), with the salt CryptoJS draws
generateState(clientId, secret, me, salt) ==
  LET state == << <<"date", Num(now)>>, <<"me", Str(me)>>, <<"clientId", Str(clientId)>> >>
      stateJson == JSONstringify(state)
  IN AESencrypt(stateJson, secret, salt)

Threw(message) == [threw |-> TRUE, message |-> message, obj |-> << >>]
Returned(obj) == [threw |-> FALSE, message |-> "", obj |-> obj]

\* no token ever counted as expired
Expired_Never(date) == FALSE

\* a token exactly TIMEOUT old counted as expired
Expired_Inclusive(date) == date <= now - TIMEOUT

\* the check at lines 58-60
Expired(date) == date < now - TIMEOUT

\* the identity checks made before the expiry check
validateState_IdentityFirst(state, clientId, secret, me, g) ==
  LET dec == AESdecrypt(state, secret, g)
      parsed == JSONparse(dec.text)
      stateObj == parsed.obj
      keys == Keys(stateObj)
  IN IF ~dec.ok THEN Threw("Malformed UTF-8 data")
     ELSE IF ~parsed.ok THEN Threw("SyntaxError")
     ELSE IF "date" \notin keys \/ "me" \notin keys \/ "clientId" \notin keys
     THEN Threw("State is missing required properties")
     ELSE IF \/ Get(stateObj, "date").t # "number"
             \/ Get(stateObj, "me").t # "string"
             \/ Get(stateObj, "clientId").t # "string"
     THEN Threw("State has invalid property types")
     ELSE IF me.t # "undefined" /\ Get(stateObj, "me") # me
     THEN Threw("State me does not match")
     ELSE IF Get(stateObj, "clientId") # Str(clientId)
     THEN Threw("State clientId does not match")
     ELSE IF Expired(Get(stateObj, "date").n) THEN Threw("State has expired")
     ELSE Returned(stateObj)

\* validateState(state, clientId, secret, me?): me is a value, undefined
\* when the argument is left out
validateState(state, clientId, secret, me, g) ==
  LET dec == AESdecrypt(state, secret, g)
      parsed == JSONparse(dec.text)
      stateObj == parsed.obj
      keys == Keys(stateObj)
  IN IF ~dec.ok THEN Threw("Malformed UTF-8 data")
     ELSE IF ~parsed.ok THEN Threw("SyntaxError")
     ELSE IF "date" \notin keys \/ "me" \notin keys \/ "clientId" \notin keys
     THEN Threw("State is missing required properties")
     ELSE IF \/ Get(stateObj, "date").t # "number"
             \/ Get(stateObj, "me").t # "string"
             \/ Get(stateObj, "clientId").t # "string"
     THEN Threw("State has invalid property types")
     ELSE IF Expired(Get(stateObj, "date").n) THEN Threw("State has expired")
     ELSE IF me.t # "undefined" /\ Get(stateObj, "me") # me
     THEN Threw("State me does not match")
     ELSE IF Get(stateObj, "clientId") # Str(clientId)
     THEN Threw("State clientId does not match")
     ELSE Returned(stateObj)

-----------------------------------------------------------------------------
(* The strings the environment supplies                                    *)

ME        == <<"https:", "/", "/", "example.com">>
ME_SLASH  == <<"https:", "/", "/", "example.com", "/">>
ME_OTHER  == <<"http:", "/", "/", "example.com", ":", "8080", "/", "me">>
ME_EVIL   == <<"https:", "/", "/", "not-example.com">>
ME_FTP    == <<"ftp:", "/", "/", "example.com">>
NO_SCHEME == <<"example.com">>
CLIENT    == <<"https:", "/", "/", "client.example.com">>
CLIENT2   == <<"https:", "/", "/", "client2.example.com">>
REDIRECT  == <<"https:", "/", "/", "client.example.com", "/", "redirect">>
AUTH      == <<"https:", "/", "/", "example.com", "/", "auth">>
TOKEN     == <<"https:", "/", "/", "example.com", "/", "token">>
SECRET    == <<"secret">>
SECRET2   == <<"bassectret">>
EMPTY     == << >>

\* the strings handed to validateUrl: every combination of a scheme or none,
\* slashes or none, credentials or none, a host, a host with a space or
\* none, a port, a word for a port or none, and a path, a caret or nothing;
\* with them the strings of the tests of validateUrl
UrlInputs ==
  {scheme \o slashes \o credentials \o host \o port \o path :
     scheme \in {<<"http:">>, <<"https:">>, <<"ftp:">>, <<"htt:">>, <<"mailto:">>, << >>},
     slashes \in {<<"/", "/">>, << >>},
     credentials \in {<<"user", ":", "pass", "@">>, << >>},
     host \in {<<"example.com">>, <<"ex", " ", "ample.com">>, << >>},
     port \in {<<":", "8080">>, <<":", "port">>, << >>},
     path \in {<<"/", "example">>, <<"^">>, << >>}}
    \cup {<<"http:", "/", "/", "[", ":", ":", "1">>}

UrlFields == {"me", "clientId", "redirectUri", "authEndpoint", "tokenEndpoint"}
Fields == UrlFields \cup {"state", "secret", "codeVerifier"}

\* what callers assign to each field
FieldInputs(f) ==
  CASE f = "me" -> {ME, ME_OTHER, ME_FTP, NO_SCHEME, EMPTY}
    [] f = "clientId" -> {CLIENT, CLIENT2, NO_SCHEME}
    [] f = "redirectUri" -> {REDIRECT, NO_SCHEME}
    [] f = "authEndpoint" -> {AUTH, NO_SCHEME}
    [] f = "tokenEndpoint" -> {TOKEN, EMPTY}
    [] f = "state" -> {EMPTY, <<"1234">>}
    [] f = "secret" -> {EMPTY, SECRET}
    [] f = "codeVerifier" -> {EMPTY, <<"1234">>}

-----------------------------------------------------------------------------
(* The instance: fields, accessors, constructor (main.js 469-577)          *)

defaultSettings == [f \in Fields |-> EMPTY]

\* `this.<f> = value` through the accessor of f: the URL fields validate
\* first and throw without assigning; ok is FALSE when the setter threw
Assign(obj, f, value) ==
  IF f \in UrlFields /\ ~validateUrl(value)
  THEN [ok |-> FALSE, obj |-> obj]
  ELSE [ok |-> TRUE, obj |-> [obj EXCEPT ![f] = value]]

\* the order in which the constructor assigns
ConstructorOrder ==
  <<"me", "clientId", "redirectUri", "state", "secret", "codeVerifier",
    "authEndpoint", "tokenEndpoint">>

RECURSIVE ConstructFrom(_, _, _)
ConstructFrom(obj, initialOptions, i) ==
  IF i > Len(ConstructorOrder) THEN [ok |-> TRUE, obj |-> obj]
  ELSE LET a == Assign(obj, ConstructorOrder[i], initialOptions[ConstructorOrder[i]])
       IN IF a.ok THEN ConstructFrom(a.obj, initialOptions, i + 1) ELSE a

\* what callers pass to the constructor: every key present or left out
\* (left out: the default '' is used)
UserSettings ==
  [me : {ME, ME_FTP, EMPTY},
   clientId : {CLIENT, EMPTY},
   redirectUri : {REDIRECT, EMPTY},
   authEndpoint : {AUTH, EMPTY},
   tokenEndpoint : {TOKEN, EMPTY},
   state : {<<"1234">>, EMPTY},
   secret : {SECRET, EMPTY},
   codeVerifier : {<<"1234">>, EMPTY}]

-----------------------------------------------------------------------------
(* Records of calls                                                        *)

\* The web: what the server of each URL answers to a GET.  A page is its
\* status (0: no answer at all), the Location header of a redirect, and the
\* relations its body advertises, each with its values in document order.
WWW   == <<"https:", "/", "/", "www.example.com", "/">>
FINAL == <<"https:", "/", "/", "final.example.com", "/">>
AUTH2 == <<"https:", "/", "/", "auth.example.com", "/">>
TOKEN2 == <<"https:", "/", "/", "auth.example.com", "/", "token">>
MICROPUB == <<"https:", "/", "/", "example.com", "/", "micropub">>

Down == [status |-> 0, location |-> EMPTY, rels |-> << >>]
Page(status, rels) == [status |-> status, location |-> EMPTY, rels |-> rels]
Redirect(status, location) == [status |-> status, location |-> location, rels |-> << >>]

NoWeb == [u \in {ME_SLASH, WWW, FINAL} |-> Down]

\* no call is suspended at its fetch; of a call that is: its name and what
\* it goes on with; a discovery is suspended at the await of
\* getUrlWithRedirects (stage "fetch") and then at the await of the scraper
\* (stage "scrape"), web being what the servers answered to its GET; a
\* getAuthUrl that called the discovery is then suspended at its own await of
\* getRelsFromUrl (stage "return"), thrown being the error the discovery
\* rejected with ("" when it returned)
NoCall == [op |-> "none", code |-> EMPTY, url |-> EMPTY, extraRels |-> << >>,
           responseType |-> EMPTY, scopes |-> << >>, request |-> EMPTY,
           stage |-> "none", web |-> NoWeb, thrown |-> ""]

\* one of the getRelsFromUrl calls that may overlap: not made yet ("idle"),
\* suspended at the await of getUrlWithRedirects ("fetch") or at the await of
\* the scraper ("scrape"), or settled ("done"); whether it was in flight
\* together with the other, as which of the two it settled, and what it
\* returned
NoFlight == [stage |-> "idle", url |-> EMPTY, overlapped |-> FALSE, order |-> 0,
             outcome |-> "none", found |-> << >>]

\* a response of the transport: failed when fetch itself threw; the body is
\* the object res.json() or qsParse(res.text()) yields
NoResp == [failed |-> FALSE, status |-> 0, body |-> << >>]

\* the arguments of a call of the codec of lib/state.ts
NoArgs == [clientId |-> EMPTY, secret |-> EMPTY, me |-> Undefined, g |-> ""]

\* nothing held yet
NoHeld == [state |-> EMPTY, by |-> "none", clientId |-> EMPTY, secret |-> EMPTY,
           me |-> EMPTY, at |-> 0]

\* no direct call of the codec is planned
NoGiven == [gen |-> [clientId |-> EMPTY, secret |-> EMPTY, me |-> EMPTY, salt |-> ""],
            val |-> NoArgs, state |-> EMPTY, useHeld |-> FALSE, url |-> EMPTY]

\* message and status are those of the error the caller gets (status 0: the
\* statusCode is null); cause is the error thrown inside a try block whose
\* catch replaces it
NoResult ==
  [op |-> "none", outcome |-> "none", message |-> "", status |-> 0, cause |-> "",
   val |-> Undefined, obj |-> << >>, missing |-> << >>, arg |-> EMPTY, field |-> "",
   args |-> NoArgs, resp |-> NoResp, before |-> defaultSettings, at |-> 0,
   call |-> NoCall, web |-> NoWeb, scraped |-> "", ret |-> EMPTY]

\* the bodies the endpoints answer with: each field present or absent
Field(key, v) == IF v = Undefined THEN << >> ELSE << <<key, v>> >>

Body(me, scope, token, error, description) ==
  Field("me", me) \o Field("scope", scope) \o Field("access_token", token)
    \o Field("error", error) \o Field("error_description", description)

Bodies ==
  {Body(m, s, t, e, d) :
     m \in {Undefined, Str(ME_SLASH), Str(ME_OTHER), Str(ME_EVIL)},
     s \in {Undefined, Str(<<"create">>)},
     t \in {Undefined, Str(<<"token123">>)},
     e \in {Undefined, Str(EMPTY), Str(<<"invalid_grant">>), Str(<<"undefined">>)},
     d \in {Undefined, Str(<<"undefined">>)}}

Responses ==
  {[failed |-> FALSE, status |-> 200, body |-> b] : b \in Bodies}
    \cup {[failed |-> FALSE, status |-> 404, body |-> Body(Str(ME_SLASH), Undefined, Undefined, Undefined, Str(<<"undefined">>))],
          [failed |-> TRUE, status |-> 0, body |-> << >>]}

Codes == {<<"auth_code_goes_here">>}

\* how far the clock moves in one step
TickSteps == {1, TIMEOUT}

\* state strings an endpoint may hand back that the codec did not make now:
\* sealed objects with fields left out, of the wrong type or from time 0,
\* and strings that are no ciphertext
Seal(obj, key) == AESencrypt(JSONstringify(obj), key, "salt1")

CraftedObjects ==
  {<< <<"date", Num(0)>>, <<"me", Str(ME)>>, <<"clientId", Str(CLIENT)>> >>,
   << <<"me", Str(ME)>>, <<"clientId", Str(CLIENT)>> >>,
   << <<"date", Str(<<"0">>)>>, <<"clientId", Str(CLIENT)>> >>,
   << <<"date", Num(0)>>, <<"me", Num(5)>>, <<"clientId", Str(CLIENT)>> >>,
   << <<"date", Str(<<"0">>)>>, <<"me", Str(ME)>>, <<"clientId", Str(CLIENT)>> >>,
   << >>}

\* a state string of time 0 sealed under the secret, one sealed under the
\* client id, and a string that is no ciphertext
InstanceStateInputs ==
  {Seal(<< <<"date", Num(0)>>, <<"me", Str(ME)>>, <<"clientId", Str(CLIENT)>> >>, k) :
     k \in {SECRET, CLIENT}} \cup {<<"invalid">>}

StateInputs(key) == {Seal(o, key) : o \in CraftedObjects} \cup {<<"invalid">>}

-----------------------------------------------------------------------------
(* checkRequiredOptions (main.js 584-602): the names among requirements    *)
(* whose option is '', in the order asked; it throws when there is one     *)

checkRequiredOptions(obj, requirements) ==
  SelectSeq(requirements, LAMBDA optionName : obj[optionName] = EMPTY)

\* only the first missing option named
MissingMessage_First(missing) == "Missing required options: " \o missing[1]

\* 'Missing required options: ' + missing.join(', ') (line 597)
RECURSIVE MissingMessage(_)
MissingMessage(missing) ==
  IF Len(missing) = 0 THEN "Missing required options: "
  ELSE IF Len(missing) = 1 THEN "Missing required options: " \o missing[1]
  ELSE MissingMessage(SubSeq(missing, 1, Len(missing) - 1)) \o ", " \o missing[Len(missing)]

-----------------------------------------------------------------------------
(* generateState / validateState of the instance (main.js 972-1009)        *)

\* this.generateState(), once its required options are there: the three
\* arguments in the order the call at line 975 gives them
InstanceGenerateState(obj, salt) == generateState(obj.me, obj.clientId, obj.secret, salt)

\* the call at line 1001
InstanceValidateStateCall(obj, state, g) ==
  validateState(state, obj.me, obj.clientId, Str(obj.secret), g)

-----------------------------------------------------------------------------
(* getToken (main.js 730-806), from the response on                        *)

\* the hostname check weakened to equality of the whole me strings
GetTokenInner_FullStringEquality(obj, result) ==
  LET description == Get(result, "error_description")
      error == Get(result, "error")
      me == Get(result, "me")
  IN IF description.t # "undefined" /\ description # Str(EMPTY)
     THEN "error_description"
     ELSE IF error # Str(<<"undefined">>) /\ error # Str(EMPTY)
     THEN "error"
     ELSE IF \/ me = Str(<<"undefined">>)
             \/ Get(result, "scope") = Str(<<"undefined">>)
             \/ Get(result, "access_token") = Str(<<"undefined">>)
     THEN "The token endpoint did not return the expected parameters"
     ELSE IF me.t # "string" \/ ~URLParse(me.s).ok \/ ~URLParse(obj.me).ok
     THEN "Invalid URL"
     ELSE IF me.s # obj.me
     THEN "The me values do not share the same hostname"
     ELSE ""

\* the checks of lines 774-798 on the parsed body: the error thrown inside
\* the try block, or "" when the token is returned
GetTokenInner(obj, result) ==
  LET description == Get(result, "error_description")
      error == Get(result, "error")
      me == Get(result, "me")
  IN IF description.t # "undefined" /\ description # Str(EMPTY)
     THEN "error_description"
     ELSE IF error # Str(<<"undefined">>) /\ error # Str(EMPTY)
     THEN "error"
     ELSE IF \/ me = Str(<<"undefined">>)
             \/ Get(result, "scope") = Str(<<"undefined">>)
             \/ Get(result, "access_token") = Str(<<"undefined">>)
     THEN "The token endpoint did not return the expected parameters"
     ELSE IF me.t # "string" \/ ~URLParse(me.s).ok \/ ~URLParse(obj.me).ok
     THEN "Invalid URL"
     ELSE IF Hostname(me.s) # Hostname(obj.me)
     THEN "The me values do not share the same hostname"
     ELSE ""

-----------------------------------------------------------------------------
(* verifyCode (main.js 876-936), from the response on                      *)

\* s.replace(/\/+$/, '')
RECURSIVE StripTrailingSlashes(_)
StripTrailingSlashes(s) ==
  IF s # << >> /\ s[Len(s)] = "/" THEN StripTrailingSlashes(SubSeq(s, 1, Len(s) - 1))
  ELSE s

\* the checks of lines 895-926: the error thrown inside the try block, or ""
VerifyCodeInner(obj, resp) ==
  LET data == resp.body
      me == Get(data, "me")
  IN IF resp.status < 200 \/ resp.status > 299 THEN "Error verifying code"
     ELSE IF Get(data, "error_description") # Str(<<"undefined">>)
     THEN "error_description"
     \* lines 912-914
     ELSE IF Get(data, "error") # Str(<<"undefined">>)
     THEN "error"
     ELSE IF me = Str(<<"undefined">>)
     THEN "The auth endpoint did not return the \"me\" parameter while verifying the code"
     ELSE IF me.t # "string" THEN "TypeError"
     ELSE IF StripTrailingSlashes(me.s) # StripTrailingSlashes(obj.me)
     THEN "The me values did not match"
     ELSE ""

-----------------------------------------------------------------------------
(* getUrlWithRedirects (main.js 620-676) and getRelsFromUrl (687-723)      *)

PageAt(web, url) == IF url \in DOMAIN web THEN web[url] ELSE Down

RedirectStatuses == {301, 302, 303, 307, 308}

\* an error without a `response` property
NoErrResponse == [t |-> "undefined", status |-> 0, location |-> EMPTY]

\* fetch(url, {method: 'GET', redirect: 'error', ...}) followed by res.text():
\* fetch rejects with a TypeError when the server does not answer and, the
\* redirect mode being 'error', when it answers with a redirect; the error
\* has no `response` property.  Any other status resolves.
Fetch(url, web) ==
  LET page == PageAt(web, url)
  IN IF page.status = 0 \/ page.status \in RedirectStatuses
     THEN [rejected |-> TRUE, response |-> NoErrResponse, text |-> << >>]
     ELSE [rejected |-> FALSE, response |-> NoErrResponse, text |-> page.rels]

\* getRedirectUrl(to, from): a location that does not start with 'http' is
\* resolved against from (here: a path against the origin of from)
getRedirectUrl(to, from) ==
  IF to # << >> /\ to[1] \in {"http:", "https:"} THEN to
  ELSE LET base == URLParse(from)
       IN <<base.protocol, "/", "/", base.hostname>>
            \o (IF base.port = "" THEN << >> ELSE <<":", base.port>>) \o to

\* an error thrown by getUrlWithRedirects: its message and its statusCode (0:
\* null)
UrlThrew(message, status) ==
  [threw |-> TRUE, message |-> message, status |-> status, url |-> EMPTY, text |-> << >>]

\* getUrlWithRedirects(url): the object {url, response} it resolves with
\* (response is the text of the body), or the error it rejects with
RECURSIVE getUrlWithRedirects(_, _)
getUrlWithRedirects(url, web) ==
  LET f == Fetch(url, web)
      res == f.response
  IN IF ~f.rejected
     THEN [threw |-> FALSE, message |-> "", status |-> 0, url |-> url, text |-> f.text]
     ELSE IF res.t = "null" THEN UrlThrew("Error getting ", 0)
     \* line 647: res is undefined, reading res.status throws inside the catch
     ELSE IF res.t = "undefined" THEN UrlThrew("TypeError", 0)
     ELSE IF res.status \in {301, 308}
     THEN getUrlWithRedirects(getRedirectUrl(res.location, url), web)
     ELSE IF res.status \in {302, 307}
     THEN LET tmp == getUrlWithRedirects(getRedirectUrl(res.location, url), web)
          \* line 657: tmp.response is a string, its status is undefined and
          \* no comparison with undefined is true
          IN IF tmp.threw THEN tmp ELSE UrlThrew("Error following redirects for ", 0)
     ELSE UrlThrew("Error getting ", res.status)

\* relScraper(finalUrl, res.data, res.headers) of the package rel-parser
\* (line 697).  res is the text of the body, a string, so res.data and
\* res.headers are both undefined: the scraper is handed the final URL only,
\* neither markup nor headers, and what it answers is its own: it rejects, or
\* it resolves with the relations it found, each with the list of its values.
ScrapeOutcomes ==
  {"rejects", "nothing", "auth", "token", "both", "all", "relative", "relativeToken"}

ScrapedRels(g) ==
  CASE g = "auth" -> << <<"authorization_endpoint", <<AUTH2, AUTH>> >> >>
    [] g = "token" -> << <<"token_endpoint", <<TOKEN>> >> >>
    [] g = "both" -> << <<"authorization_endpoint", <<AUTH>> >>, <<"token_endpoint", <<TOKEN>> >> >>
    [] g = "all" -> << <<"authorization_endpoint", <<AUTH2>> >>,
                       <<"token_endpoint", <<TOKEN2, TOKEN>> >>,
                       <<"micropub", <<MICROPUB>> >> >>
    [] g = "relative" -> << <<"authorization_endpoint", <<NO_SCHEME>> >>,
                            <<"token_endpoint", <<TOKEN>> >> >>
    [] g = "relativeToken" -> << <<"authorization_endpoint", <<AUTH2>> >>,
                                 <<"token_endpoint", <<NO_SCHEME>> >> >>
    [] OTHER -> << >>

relScraper(g) == [threw |-> g = "rejects", rels |-> ScrapedRels(g)]

\* rels?.[key]?.[0] ?? null
RECURSIVE FirstOrNull(_, _)
FirstOrNull(rels, key) ==
  IF rels = << >> THEN Null
  ELSE IF rels[1][1] = key
  THEN (IF rels[1][2] = << >> THEN Null ELSE Str(rels[1][2][1]))
  ELSE FirstOrNull(Tail(rels), key)

RelsResult(cause, obj, found) == [cause |-> cause, obj |-> obj, found |-> found]

\* getRelsFromUrl from the answer of the scraper on (lines 699-715), on the
\* fields as they are then
ScrapedPart(obj, extraRels, g) ==
  LET toFind == <<"authorization_endpoint", "token_endpoint">> \o extraRels
      scraped == relScraper(g)
      foundRels == [i \in 1..Len(toFind) |-> <<toFind[i], FirstOrNull(scraped.rels, toFind[i])>>]
      authorization_endpoint == Get(foundRels, "authorization_endpoint")
      token_endpoint == Get(foundRels, "token_endpoint")
      a2 == Assign(obj, "authEndpoint", StringOf(authorization_endpoint))
      a3 == IF TypeOf(token_endpoint) # "undefined"
            THEN Assign(a2.obj, "tokenEndpoint", StringOf(token_endpoint))
            ELSE [ok |-> TRUE, obj |-> a2.obj]
  IN IF scraped.threw THEN RelsResult("rel-parser", obj, << >>)
     ELSE IF TypeOf(authorization_endpoint) = "undefined"
     THEN RelsResult("No authorization endpoint found", obj, << >>)
     ELSE IF ~a2.ok THEN RelsResult("Invalid URL", obj, << >>)
     ELSE IF ~a3.ok THEN RelsResult("Invalid URL", a2.obj, << >>)
     ELSE RelsResult("", a3.obj, foundRels)

\* me assigned only once the endpoints are
FetchedPart_MeLater(obj, fetched) ==
  IF fetched.threw THEN RelsResult(fetched.message, obj, << >>)
  ELSE IF ~validateUrl(fetched.url) THEN RelsResult("Invalid URL", obj, << >>)
  ELSE RelsResult("", obj, << >>)

\* the try block of getRelsFromUrl from the answer of getUrlWithRedirects to
\* the call of the scraper (lines 692-697): the error thrown in it ("" when
\* the scraper is called) and the fields afterwards
FetchedPart(obj, fetched) ==
  LET a1 == Assign(obj, "me", fetched.url)
  IN IF fetched.threw THEN RelsResult(fetched.message, obj, << >>)
     ELSE IF ~a1.ok THEN RelsResult("Invalid URL", obj, << >>)
     ELSE RelsResult("", a1.obj, << >>)

\* a call that is not suspended at the scraper: once its GET is answered it
\* runs to its end
Advance_Unsuspended(st, c, web, g) ==
  LET fl == st.flights[c]
      f == FetchedPart(st.this, getUrlWithRedirects(fl.url, web))
      r == ScrapedPart(f.obj, << >>, g)
      settled(outcome, found) ==
        [fl EXCEPT !.stage = "done", !.outcome = outcome, !.found = found,
                   !.order = 1 + Cardinality({d \in DOMAIN st.flights : st.flights[d].stage = "done"})]
  IN IF fl.stage # "fetch" THEN st
     ELSE IF f.cause # "" THEN [st EXCEPT !.flights[c] = settled("rejected", << >>)]
     ELSE [this |-> r.obj,
           flights |-> [st.flights EXCEPT
                          ![c] = settled(IF r.cause = "" THEN "resolved" ELSE "rejected", r.found)]]

\* One of two overlapping getRelsFromUrl calls goes on from where it is
\* suspended to its next suspension or to its end: st holds the fields and
\* both calls, c is the call that goes on.
Advance(st, c, web, g) ==
  LET fl == st.flights[c]
      f == FetchedPart(st.this, getUrlWithRedirects(fl.url, web))
      r == ScrapedPart(st.this, << >>, g)
      settled(outcome, found) ==
        [fl EXCEPT !.stage = "done", !.outcome = outcome, !.found = found,
                   !.order = 1 + Cardinality({d \in DOMAIN st.flights : st.flights[d].stage = "done"})]
  IN IF fl.stage = "fetch"
     THEN IF f.cause # ""
          THEN [st EXCEPT !.flights[c] = settled("rejected", << >>)]
          ELSE [this |-> f.obj, flights |-> [st.flights EXCEPT ![c].stage = "scrape"]]
     ELSE IF fl.stage = "scrape"
     THEN [this |-> r.obj,
           flights |-> [st.flights EXCEPT
                          ![c] = settled(IF r.cause = "" THEN "resolved" ELSE "rejected", r.found)]]
     ELSE st

-----------------------------------------------------------------------------
(* getAuthUrl (main.js 814-869) and autoGenerateState (983-991)            *)

\* The serializer of URLSearchParams (application/x-www-form-urlencoded):
\* a space becomes '+', every other delimiter its percent escape, the colon
\* of a scheme included; names are left as they are.
Escapes ==
  << <<":", "%3A">>, <<"/", "%2F">>, <<" ", "+">>, <<"^", "%5E">>, <<"[", "%5B">>,
     <<"\"", "%22">>, <<"|", "%7C">>, <<"{", "%7B">>, <<"}", "%7D">>, <<",", "%2C">>,
     <<"@", "%40">>, <<"?", "%3F">>, <<"#", "%23">>, <<"=", "%3D">>, <<"&", "%26">>,
     <<"+", "%2B">> >>

SchemeNames ==
  << <<"http:", "http">>, <<"https:", "https">>, <<"ftp:", "ftp">>, <<"htt:", "htt">>,
     <<"mailto:", "mailto">> >>

\* the second component of the pair of table whose first component is tok
Lookup(table, tok) == table[CHOOSE i \in 1..Len(table) : table[i][1] = tok][2]
Has(table, tok) == \E i \in 1..Len(table) : table[i][1] = tok

FormEncodeToken(tok) ==
  IF Has(Escapes, tok) THEN <<Lookup(Escapes, tok)>>
  ELSE IF Has(SchemeNames, tok) THEN <<Lookup(SchemeNames, tok), "%3A">>
  ELSE <<tok>>

RECURSIVE FormEncode(_)
FormEncode(str) ==
  IF str = << >> THEN << >> ELSE FormEncodeToken(str[1]) \o FormEncode(Tail(str))

\* encodeURIComponent: as above, but a space becomes %20
RECURSIVE encodeURIComponent(_)
encodeURIComponent(str) ==
  IF str = << >> THEN << >>
  ELSE (IF str[1] = " " THEN <<"%20">> ELSE FormEncodeToken(str[1]))
         \o encodeURIComponent(Tail(str))

\* one serialized parameter, and the parameters joined by '&'
RECURSIVE Serialize(_)
Serialize(params) ==
  IF params = << >> THEN << >>
  ELSE <<params[1][1], "=">> \o FormEncode(params[1][2])
         \o (IF Len(params) = 1 THEN << >> ELSE <<"&">> \o Serialize(Tail(params)))

\* the data getToken posts (main.js 739-750): codeVerifier is a string, never
\* undefined, so the code_verifier is always added
TokenRequest(obj, code) ==
  << <<"grant_type", <<"authorization_code">> >>, <<"me", obj.me>>, <<"code", code>>,
     <<"client_id", obj.clientId>>, <<"redirect_uri", obj.redirectUri>> >>
    \o << <<"code_verifier", obj.codeVerifier>> >>

\* stringify of the package qs on an object of strings: name=value pairs
\* joined by '&', each value percent-encoded, an empty string as 'name='
RECURSIVE qsStringify(_)
qsStringify(data) ==
  IF data = << >> THEN << >>
  ELSE <<data[1][1], "=">> \o encodeURIComponent(data[1][2])
         \o (IF Len(data) = 1 THEN << >> ELSE <<"&">> \o qsStringify(Tail(data)))

\* scopes.join(' ')
RECURSIVE JoinSpace(_)
JoinSpace(scopes) ==
  IF scopes = << >> THEN << >>
  ELSE IF Len(scopes) = 1 THEN scopes[1]
  ELSE scopes[1] \o <<" ">> \o JoinSpace(Tail(scopes))

\* the characters of a string in one token
RECURSIVE Joined(_)
Joined(str) == IF str = << >> THEN "" ELSE str[1] \o Joined(Tail(str))

\* CryptoJS.SHA256(message).toString(): the digest in hexadecimal, one token;
\* the digests of the verifiers of the tests are the real ones
SHA256hex(message) ==
  IF message = <<"1234">>
  THEN <<"03ac674216f3e15c761ee1a5e255f067953623c8b388b4459e13f978d7c846f4">>
  ELSE IF message = <<"5678">>
  THEN <<"f8638b979b2f4f793ddb6dbd197e0ee25a7a6ea32b0ae22f5e3c5d119d839e75">>
  ELSE <<"sha256-" \o Joined(message)>>

\* a fresh state for every authorization request: one generated earlier is
\* replaced
autoGenerateState_Fresh(obj, salt) ==
  IF (obj.state = EMPTY \/ IsCipher(obj.state))
       /\ checkRequiredOptions(obj, <<"secret", "me", "clientId">>) = << >>
  THEN [obj EXCEPT !.state = InstanceGenerateState(obj, salt)]
  ELSE obj

\* a state generated whether or not the secret, me and clientId are set
autoGenerateState_Unkeyed(obj, salt) ==
  IF obj.state = EMPTY THEN [obj EXCEPT !.state = InstanceGenerateState(obj, salt)] ELSE obj

\* a state generated whether or not one is set
autoGenerateState_Always(obj, salt) ==
  IF checkRequiredOptions(obj, <<"secret", "me", "clientId">>) = << >>
  THEN [obj EXCEPT !.state = InstanceGenerateState(obj, salt)]
  ELSE obj

\* autoGenerateState(): the fields afterwards; an error of generateState is
\* swallowed
autoGenerateState(obj, salt) ==
  IF obj.state = EMPTY /\ checkRequiredOptions(obj, <<"secret", "me", "clientId">>) = << >>
  THEN [obj EXCEPT !.state = InstanceGenerateState(obj, salt)]
  ELSE obj

\* no scope asked for
ScopesMissing_Never(responseType, scopes) == FALSE

\* lines 820-825: the code flow needs scopes
ScopesMissing(responseType, scopes) == responseType = <<"code">> /\ Len(scopes) = 0

\* the default of the parameter responseType
ResponseType(arg) == IF arg = Undefined THEN <<"id">> ELSE arg.s

AuthResult(cause, missing, url, challenge) ==
  [cause |-> cause, missing |-> missing, url |-> url, challenge |-> challenge]

\* a code challenge hashed from the state instead of the code verifier
BuildAuthUrl_HashOfState(obj, responseType, scopes) ==
  LET missing == checkRequiredOptions(obj, <<"me", "state", "clientId", "redirectUri", "authEndpoint">>)
      authUrl == URLParse(obj.authEndpoint)
      pkce == responseType = <<"code">> /\ obj.codeVerifier # EMPTY
      codeChallenge == encodeURIComponent(SHA256hex(obj.state))
      searchParams ==
        << <<"me", obj.me>>, <<"client_id", obj.clientId>>, <<"redirect_uri", obj.redirectUri>>,
           <<"response_type", responseType>>, <<"state", obj.state>> >>
          \o (IF Len(scopes) > 0 THEN << <<"scope", JoinSpace(scopes)>> >> ELSE << >>)
          \o (IF pkce THEN << <<"code_challenge_method", <<"S256">> >>,
                               <<"code_challenge", codeChallenge>> >>
               ELSE << >>)
  IN IF missing # << >> THEN AuthResult(MissingMessage(missing), missing, EMPTY, EMPTY)
     ELSE IF ~authUrl.ok THEN AuthResult("Invalid URL", << >>, EMPTY, EMPTY)
     ELSE AuthResult("", << >>, authUrl.href \o <<"?">> \o Serialize(searchParams),
                     IF pkce THEN codeChallenge ELSE EMPTY)

\* a scope parameter appended whether or not scopes are given
BuildAuthUrl_ScopeAlways(obj, responseType, scopes) ==
  LET missing == checkRequiredOptions(obj, <<"me", "state", "clientId", "redirectUri", "authEndpoint">>)
      authUrl == URLParse(obj.authEndpoint)
      pkce == responseType = <<"code">> /\ obj.codeVerifier # EMPTY
      codeChallenge == encodeURIComponent(SHA256hex(obj.codeVerifier))
      searchParams ==
        << <<"me", obj.me>>, <<"client_id", obj.clientId>>, <<"redirect_uri", obj.redirectUri>>,
           <<"response_type", responseType>>, <<"state", obj.state>> >>
          \o << <<"scope", JoinSpace(scopes)>> >>
          \o (IF pkce THEN << <<"code_challenge_method", <<"S256">> >>,
                               <<"code_challenge", codeChallenge>> >>
               ELSE << >>)
  IN IF missing # << >> THEN AuthResult(MissingMessage(missing), missing, EMPTY, EMPTY)
     ELSE IF ~authUrl.ok THEN AuthResult("Invalid URL", << >>, EMPTY, EMPTY)
     ELSE AuthResult("", << >>, authUrl.href \o <<"?">> \o Serialize(searchParams),
                     IF pkce THEN codeChallenge ELSE EMPTY)

\* the try block of getAuthUrl once the authorization endpoint is known
\* (lines 834-865): the error thrown in it ("" when it returns), the URL
\* returned and the code challenge sent.  The endpoints of the model have no
\* query, so the parameters appended are the whole query.
BuildAuthUrl(obj, responseType, scopes) ==
  LET missing == checkRequiredOptions(obj, <<"me", "state", "clientId", "redirectUri", "authEndpoint">>)
      authUrl == URLParse(obj.authEndpoint)
      pkce == responseType = <<"code">> /\ obj.codeVerifier # EMPTY
      codeChallenge == encodeURIComponent(SHA256hex(obj.codeVerifier))
      searchParams ==
        << <<"me", obj.me>>, <<"client_id", obj.clientId>>, <<"redirect_uri", obj.redirectUri>>,
           <<"response_type", responseType>>, <<"state", obj.state>> >>
          \o (IF Len(scopes) > 0 THEN << <<"scope", JoinSpace(scopes)>> >> ELSE << >>)
          \o (IF pkce THEN << <<"code_challenge_method", <<"S256">> >>,
                               <<"code_challenge", codeChallenge>> >>
               ELSE << >>)
  IN IF missing # << >> THEN AuthResult(MissingMessage(missing), missing, EMPTY, EMPTY)
     ELSE IF ~authUrl.ok THEN AuthResult("Invalid URL", << >>, EMPTY, EMPTY)
     ELSE AuthResult("", << >>, authUrl.href \o <<"?">> \o Serialize(searchParams),
                     IF pkce THEN codeChallenge ELSE EMPTY)

-----------------------------------------------------------------------------
Init ==
  /\ phase = "new"
  /\ this = defaultSettings
  /\ now = 0
  /\ ticks = 0
  /\ pending = NoCall
  /\ held = NoHeld
  /\ given = NoGiven
  /\ flights = [c \in {1, 2} |-> NoFlight]
  /\ issued = {}
  /\ last = NoResult

Done(op, outcome, message) ==
  [NoResult EXCEPT !.op = op, !.outcome = outcome, !.message = message,
                   !.before = this, !.at = now]

\* new IndieAuth(userSettings)
Constructor(userSettings) ==
  /\ phase = "new"
  /\ LET initialOptions == [f \in Fields |-> userSettings[f]]
         c == ConstructFrom(defaultSettings, initialOptions, 1)
     IN /\ this' = c.obj
        /\ phase' = IF c.ok THEN "ready" ELSE "failed"
        /\ last' = [Done("constructor", IF c.ok THEN "returned" ELSE "threw",
                         IF c.ok THEN "" ELSE "Invalid URL")
                      EXCEPT !.before = initialOptions]
  /\ UNCHANGED <<flights, issued, now, ticks, pending, held, given>>

\* instance.<f> = value
Set(f, value) ==
  /\ phase = "ready"
  /\ LET a == Assign(this, f, value)
     IN /\ this' = a.obj
        /\ last' = [Done("set", IF a.ok THEN "returned" ELSE "threw",
                         IF a.ok THEN "" ELSE "Invalid URL")
                      EXCEPT !.arg = value, !.field = f]
  /\ UNCHANGED <<flights, issued, phase, now, ticks, pending, held, given>>

\* time passes
Tick(d) ==
  /\ ticks < MaxTicks
  /\ now' = now + d
  /\ ticks' = ticks + 1
  /\ UNCHANGED <<flights, issued, phase, this, pending, held, given, last>>

\* instance.checkRequiredOptions(requirements)
CheckRequiredOptions(requirements) ==
  /\ phase = "ready"
  /\ LET missing == checkRequiredOptions(this, requirements)
     IN last' = IF missing = << >>
                THEN [Done("checkRequiredOptions", "returned", "")
                        EXCEPT !.val = Str(<<"true">>), !.arg = requirements]
                ELSE [Done("checkRequiredOptions", "threw", MissingMessage(missing))
                        EXCEPT !.missing = missing, !.arg = requirements]
  /\ UNCHANGED <<flights, issued, phase, this, now, ticks, pending, held, given>>

\* instance.getToken(code), up to its fetch
GetTokenStart(code) ==
  /\ phase = "ready"
  /\ pending = NoCall
  /\ LET missing == checkRequiredOptions(this, <<"me", "clientId", "redirectUri", "tokenEndpoint">>)
     IN IF missing # << >>
        THEN /\ last' = [Done("getToken", "rejected", MissingMessage(missing))
                           EXCEPT !.missing = missing]
             /\ UNCHANGED pending
        ELSE /\ pending' = [NoCall EXCEPT !.op = "getToken", !.code = code,
                                          !.request = qsStringify(TokenRequest(this, code))]
             /\ last' = Done("getToken", "pending", "")
  /\ UNCHANGED <<flights, issued, phase, this, now, ticks, held, given>>

\* the token kept on the instance, as the legacy code did
GetTokenResume_StoresToken(resp) ==
  /\ pending.op = "getToken"
  /\ LET inner == IF resp.failed THEN "fetch failed" ELSE GetTokenInner(this, resp.body)
     IN /\ last' = IF inner = ""
                   THEN [Done("getToken", "resolved", "")
                           EXCEPT !.val = Get(resp.body, "access_token"), !.resp = resp]
                   ELSE [Done("getToken", "rejected", "Error requesting token endpoint")
                           EXCEPT !.cause = inner, !.resp = resp]
        /\ this' = IF inner = ""
                   THEN [this EXCEPT !.codeVerifier = Get(resp.body, "access_token").s]
                   ELSE this
  /\ pending' = NoCall
  /\ UNCHANGED <<flights, issued, phase, now, ticks, held, given>>

\* the token endpoint answers, or the fetch fails
GetTokenResume(resp) ==
  /\ pending.op = "getToken"
  /\ LET inner == IF resp.failed THEN "fetch failed" ELSE GetTokenInner(this, resp.body)
     IN last' = IF inner = ""
                THEN [Done("getToken", "resolved", "")
                        EXCEPT !.val = Get(resp.body, "access_token"), !.resp = resp]
                ELSE [Done("getToken", "rejected", "Error requesting token endpoint")
                        EXCEPT !.cause = inner, !.resp = resp]
  /\ pending' = NoCall
  /\ UNCHANGED <<flights, issued, phase, this, now, ticks, held, given>>

\* instance.verifyCode(code), up to its fetch
VerifyCodeStart(code) ==
  /\ phase = "ready"
  /\ pending = NoCall
  /\ LET missing == checkRequiredOptions(this, <<"me", "clientId", "redirectUri", "authEndpoint">>)
     IN IF missing # << >>
        THEN /\ last' = [Done("verifyCode", "rejected", MissingMessage(missing))
                           EXCEPT !.missing = missing]
             /\ UNCHANGED pending
        ELSE /\ pending' = [NoCall EXCEPT !.op = "verifyCode", !.code = code,
                                          !.request = qsStringify(<< <<"code", code>>,
                                                                     <<"client_id", this.clientId>>,
                                                                     <<"redirect_uri", this.redirectUri>> >>)]
             /\ last' = Done("verifyCode", "pending", "")
  /\ UNCHANGED <<flights, issued, phase, this, now, ticks, held, given>>

\* the authorization endpoint answers, or the fetch fails
VerifyCodeResume(resp) ==
  /\ pending.op = "verifyCode"
  /\ LET inner == IF resp.failed THEN "fetch failed" ELSE VerifyCodeInner(this, resp)
         me == Get(resp.body, "me")
         \* lines 928-930: adopt the response's me when none is configured
         a == IF inner = "" /\ this.me = EMPTY THEN Assign(this, "me", me.s)
              ELSE [ok |-> TRUE, obj |-> this]
     IN /\ this' = a.obj
        /\ last' = IF inner = "" /\ a.ok
                   THEN [Done("verifyCode", "resolved", "") EXCEPT !.val = me, !.resp = resp]
                   ELSE [Done("verifyCode", "rejected", "Error verifying authorization code")
                           EXCEPT !.cause = IF inner = "" THEN "Invalid URL" ELSE inner,
                                  !.resp = resp]
  /\ pending' = NoCall
  /\ UNCHANGED <<flights, issued, phase, now, ticks, held, given>>

\* instance.generateState(); the caller keeps the string
GenerateState(salt) ==
  /\ phase = "ready"
  /\ LET missing == checkRequiredOptions(this, <<"secret", "me", "clientId">>)
         state == InstanceGenerateState(this, salt)
     IN IF missing # << >>
        THEN /\ last' = [Done("generateState", "threw", MissingMessage(missing))
                           EXCEPT !.missing = missing]
             /\ UNCHANGED held
        ELSE /\ last' = [Done("generateState", "returned", "") EXCEPT !.val = Str(state)]
             /\ held' = [state |-> state, by |-> "instance", clientId |-> this.clientId,
                          secret |-> this.secret, me |-> this.me, at |-> now]
  /\ UNCHANGED <<flights, issued, phase, this, now, ticks, pending, given>>

\* instance.autoGenerateState(), called by the caller
AutoGenerateState(salt) ==
  /\ phase = "ready"
  /\ \E obj \in {autoGenerateState(this, salt)} :
     /\ this' = obj
     /\ held' = IF obj.state # this.state
                THEN [state |-> obj.state, by |-> "autoGenerateState", clientId |-> this.clientId,
                      secret |-> this.secret, me |-> this.me, at |-> now]
                ELSE held
     /\ last' = Done("autoGenerateState", "returned", "")
  /\ UNCHANGED <<flights, issued, phase, now, ticks, pending, given>>

\* instance.validateState(state)
ValidateState(state, g) ==
  /\ phase = "ready"
  /\ \E r \in {InstanceValidateStateCall(this, state, g)} :
     LET missing == checkRequiredOptions(this, <<"secret", "clientId">>)
         \* lines 1002-1004: adopt the state's me when none is configured
         a == IF ~r.threw /\ this.me = EMPTY THEN Assign(this, "me", Get(r.obj, "me").s)
              ELSE [ok |-> TRUE, obj |-> this]
     IN IF missing # << >>
        THEN /\ last' = [Done("validateState", "threw", MissingMessage(missing))
                           EXCEPT !.missing = missing, !.arg = state]
             /\ UNCHANGED this
        ELSE /\ this' = a.obj
             /\ last' = IF ~r.threw /\ a.ok
                        THEN [Done("validateState", "returned", "")
                                EXCEPT !.val = Str(<<"object">>), !.obj = r.obj, !.arg = state]
                        ELSE [Done("validateState", "returned", "")
                                EXCEPT !.val = Str(<<"false">>), !.arg = state,
                                       !.cause = IF r.threw THEN r.message ELSE "Invalid URL"]
  /\ UNCHANGED <<flights, issued, phase, now, ticks, pending, held, given>>

\* generateState(clientId, secret, me) of lib/state.ts, called directly with
\* the arguments drawn; the caller keeps the string
LibGenerateState ==
  /\ held = NoHeld
  /\ LET a == given.gen
         state == generateState(a.clientId, a.secret, a.me, a.salt)
     IN /\ held' = [state |-> state, by |-> "lib", clientId |-> a.clientId,
                     secret |-> a.secret, me |-> a.me, at |-> now]
        /\ last' = [Done("lib.generateState", "returned", "") EXCEPT !.val = Str(state)]
  /\ UNCHANGED <<flights, issued, phase, this, now, ticks, pending, given>>

\* validateState(state, clientId, secret, me?) of lib/state.ts, called directly
\* on the string held or on the one drawn
LibValidateState ==
  /\ given.useHeld => held # NoHeld
  /\ LET a == given.val
         state == IF given.useHeld THEN held.state ELSE given.state
         r == validateState(state, a.clientId, a.secret, a.me, a.g)
     IN last' = [Done("lib.validateState", IF r.threw THEN "threw" ELSE "returned", r.message)
                   EXCEPT !.obj = r.obj, !.arg = state, !.args = a]
  /\ UNCHANGED <<flights, issued, phase, this, now, ticks, pending, held, given>>

\* validateUrl(url) of lib/validate-url.ts, called directly on the string drawn
LibValidateUrl ==
  /\ last' = [Done("lib.validateUrl", IF validateUrl(given.url) THEN "returned" ELSE "threw",
                    IF validateUrl(given.url) THEN "" ELSE "Invalid URL")
                 EXCEPT !.arg = given.url]
  /\ UNCHANGED <<flights, issued, phase, this, now, ticks, pending, held, given>>

\* instance.getRelsFromUrl(url, extraRels), up to the fetch of
\* getUrlWithRedirects; getCanonicalUrl throws before the try block
GetRelsFromUrlStart(url, extraRels) ==
  /\ phase = "ready"
  /\ pending = NoCall
  /\ LET canonical == URLParse(url)
         call == [NoCall EXCEPT !.op = "getRelsFromUrl", !.url = canonical.href,
                                !.extraRels = extraRels, !.stage = "fetch"]
     IN IF ~canonical.ok
        THEN /\ last' = [Done("getRelsFromUrl", "rejected", "Invalid URL") EXCEPT !.arg = url]
             /\ UNCHANGED pending
        ELSE /\ pending' = call
             /\ last' = [Done("getRelsFromUrl", "pending", "") EXCEPT !.arg = url]
  /\ UNCHANGED <<flights, issued, phase, this, now, ticks, held, given>>

\* instance.getRelsFromUrl(url), called as the call c of two that may be in
\* flight together, up to the fetch of getUrlWithRedirects
RelsCall(c, url) ==
  /\ phase = "ready"
  /\ pending = NoCall
  /\ flights[c].stage = "idle"
  /\ LET canonical == URLParse(url)
         inFlight == {d \in DOMAIN flights : flights[d].stage \in {"fetch", "scrape"}}
     IN IF ~canonical.ok
        THEN /\ flights' = [flights EXCEPT ![c].stage = "done", ![c].outcome = "rejected",
                               ![c].order = 1 + Cardinality({d \in DOMAIN flights : flights[d].stage = "done"})]
             /\ last' = [Done("getRelsFromUrl", "rejected", "Invalid URL") EXCEPT !.arg = url]
        ELSE /\ flights' = [d \in DOMAIN flights |->
                               IF d = c
                               THEN [flights[c] EXCEPT !.stage = "fetch", !.url = canonical.href,
                                                       !.overlapped = inFlight # {}]
                               ELSE IF d \in inFlight THEN [flights[d] EXCEPT !.overlapped = TRUE]
                               ELSE flights[d]]
             /\ last' = [Done("getRelsFromUrl", "pending", "") EXCEPT !.arg = url]
  /\ UNCHANGED <<issued, phase, this, now, ticks, pending, held, given>>

\* the call c goes on: the server has answered its GET (or has not), or the
\* scraper has answered
RelsAdvance(c, web, g) ==
  /\ flights[c].stage \in {"fetch", "scrape"}
  /\ \E st \in {Advance([this |-> this, flights |-> flights], c, web, g)} :
       /\ this' = st.this
       /\ flights' = st.flights
       /\ last' = IF st.flights[c].stage # "done"
                  THEN [Done("getRelsFromUrl", "pending", "") EXCEPT !.arg = flights[c].url, !.web = web]
                  ELSE [Done("getRelsFromUrl", st.flights[c].outcome,
                             IF st.flights[c].outcome = "resolved" THEN ""
                             ELSE "Error getting rels from url")
                          EXCEPT !.arg = flights[c].url, !.web = web, !.obj = st.flights[c].found]
  /\ UNCHANGED <<issued, phase, now, ticks, pending, held, given>>

\* instance.getAuthUrl(responseType, scopes): to its end when the
\* authorization endpoint is set, up to the fetch of the discovery when not
GetAuthUrlStart(arg, scopes, salt) ==
  /\ phase = "ready"
  /\ pending = NoCall
  /\ \E obj \in {autoGenerateState(this, salt)}, responseType \in {ResponseType(arg)} :
     \E b \in {BuildAuthUrl(obj, responseType, scopes)} :
     LET missing == checkRequiredOptions(obj, <<"me", "state">>)
         canonical == URLParse(obj.me)
         call == [NoCall EXCEPT !.op = "getAuthUrl", !.url = canonical.href,
                                !.responseType = responseType, !.scopes = scopes,
                                !.stage = "fetch"]
         done(outcome, message) ==
           [Done("getAuthUrl", outcome, message) EXCEPT !.call = call, !.arg = StringOf(arg)]
     IN /\ this' = obj
        /\ held' = IF obj.state # this.state
                   THEN [state |-> obj.state, by |-> "getAuthUrl", clientId |-> this.clientId,
                         secret |-> this.secret, me |-> this.me, at |-> now]
                   ELSE held
        /\ IF missing # << >>
           THEN /\ last' = [done("rejected", MissingMessage(missing))
                              EXCEPT !.missing = missing]
                /\ UNCHANGED <<pending, issued>>
           ELSE IF ScopesMissing(responseType, scopes)
           THEN /\ last' = done("rejected", "You need to provide some scopes when using response type \"code\"")
                /\ UNCHANGED <<pending, issued>>
           ELSE IF obj.authEndpoint = EMPTY /\ canonical.ok
           THEN /\ pending' = call
                /\ last' = done("pending", "")
                /\ UNCHANGED issued
           ELSE IF obj.authEndpoint = EMPTY \/ b.cause # ""
           THEN /\ last' = [done("rejected", "Error getting auth url")
                              EXCEPT !.cause = IF obj.authEndpoint = EMPTY THEN "Invalid URL" ELSE b.cause,
                                     !.missing = b.missing]
                /\ UNCHANGED <<pending, issued>>
           ELSE /\ last' = [done("resolved", "") EXCEPT !.ret = b.url, !.val = Str(b.challenge)]
                /\ issued' = IF b.challenge = EMPTY THEN issued
                             ELSE issued \cup {[verifier |-> obj.codeVerifier, challenge |-> b.challenge]}
                /\ UNCHANGED pending
  /\ UNCHANGED <<flights, phase, now, ticks, given>>

\* the server answers the GET of getUrlWithRedirects, or does not: the
\* discovery goes on to the call of the scraper, where it is suspended again,
\* or it fails; a getAuthUrl that called it learns of the failure when it is
\* resumed
DiscoveryFetched(web) ==
  /\ pending.op \in {"getRelsFromUrl", "getAuthUrl"}
  /\ pending.stage = "fetch"
  /\ \E f \in {FetchedPart(this, getUrlWithRedirects(pending.url, web))} :
     LET done(outcome, message) ==
           [Done(pending.op, outcome, message) EXCEPT !.call = pending, !.web = web]
     IN /\ this' = f.obj
        /\ IF f.cause = ""
           THEN /\ pending' = [pending EXCEPT !.stage = "scrape", !.web = web]
                /\ last' = done("pending", "")
           ELSE IF pending.op = "getRelsFromUrl"
           THEN /\ pending' = NoCall
                /\ last' = [done("rejected", "Error getting rels from url")
                              EXCEPT !.cause = f.cause]
           ELSE /\ pending' = [pending EXCEPT !.stage = "return", !.web = web,
                                              !.thrown = "Error getting rels from url"]
                /\ last' = done("pending", "")
  /\ UNCHANGED <<flights, issued, phase, now, ticks, held, given>>

\* the discovery goes on from the await of the scraper: the scraper has
\* answered, and this is the rest of getRelsFromUrl, after which a getAuthUrl
\* that called it is still suspended at its await of getRelsFromUrl (831).
\* Or getAuthUrl goes on from that await: the rest of getAuthUrl (834-868), on
\* the fields as they are by then.
DiscoveryScraped(g) ==
  /\ pending.op \in {"getRelsFromUrl", "getAuthUrl"}
  /\ pending.stage \in {"scrape", "return"}
  /\ LET done(op, outcome, message) ==
           [Done(op, outcome, message) EXCEPT !.call = pending, !.web = pending.web]
     IN IF pending.stage = "scrape"
        THEN \E r \in {ScrapedPart(this, pending.extraRels, g)} :
             /\ this' = r.obj
             /\ UNCHANGED issued
             /\ IF pending.op = "getRelsFromUrl"
                THEN /\ pending' = NoCall
                     /\ last' = IF r.cause = ""
                                THEN [done("getRelsFromUrl", "resolved", "")
                                        EXCEPT !.obj = r.found, !.scraped = g]
                                ELSE [done("getRelsFromUrl", "rejected", "Error getting rels from url")
                                        EXCEPT !.cause = r.cause, !.scraped = g]
                ELSE /\ pending' = [pending EXCEPT !.stage = "return",
                                       !.thrown = IF r.cause = "" THEN ""
                                                  ELSE "Error getting rels from url"]
                     /\ last' = [done("getAuthUrl", "pending", "") EXCEPT !.scraped = g]
        ELSE \E b \in {BuildAuthUrl(this, pending.responseType, pending.scopes)} :
             /\ UNCHANGED this
             /\ pending' = NoCall
             /\ IF pending.thrown # "" \/ b.cause # ""
                THEN /\ last' = [done("getAuthUrl", "rejected", "Error getting auth url")
                                   EXCEPT !.cause = IF pending.thrown # "" THEN pending.thrown
                                                    ELSE b.cause,
                                          !.missing = IF pending.thrown # "" THEN << >>
                                                      ELSE b.missing]
                     /\ UNCHANGED issued
                ELSE /\ last' = [done("getAuthUrl", "resolved", "")
                                   EXCEPT !.ret = b.url, !.val = Str(b.challenge)]
                     /\ issued' = IF b.challenge = EMPTY THEN issued
                                  ELSE issued \cup {[verifier |-> this.codeVerifier,
                                                     challenge |-> b.challenge]}
  /\ UNCHANGED <<flights, phase, now, ticks, held, given>>

Next ==
  \/ \E s \in UserSettings : Constructor(s)
  \/ \E f \in Fields : \E v \in FieldInputs(f) : Set(f, v)
  \/ \E c \in Codes : GetTokenStart(c)
  \/ \E r \in Responses : GetTokenResume(r)
  \/ \E c \in Codes : VerifyCodeStart(c)
  \/ \E r \in Responses : VerifyCodeResume(r)
  \/ \E requirements \in {ConstructorOrder, <<"state">>, <<"state", "codeVerifier", "secret">>,
                           <<"secret", "me", "state">>} :
       CheckRequiredOptions(requirements)

Spec == Init /\ [][Next]_vars

\* the codec of lib/state.ts on its own: the arguments are drawn at the start
GenInputs ==
  {[clientId |-> CLIENT, secret |-> SECRET, me |-> ME, salt |-> salt] : salt \in Salts}
    \cup {[clientId |-> CLIENT2, secret |-> SECRET2, me |-> ME_EVIL, salt |-> salt] : salt \in Salts}

ValInputs ==
  [clientId : {CLIENT, CLIENT2}, secret : {SECRET, SECRET2},
   me : {Undefined, Str(ME), Str(ME_EVIL)}, g : Garbage]

InitLib ==
  /\ phase = "new"
  /\ this = defaultSettings
  /\ now = 0
  /\ ticks = 0
  /\ pending = NoCall
  /\ held = NoHeld
  /\ flights = [c \in {1, 2} |-> NoFlight]
  /\ issued = {}
  /\ given \in {[gen |-> a, val |-> b, state |-> EMPTY, useHeld |-> TRUE, url |-> EMPTY] :
                   a \in GenInputs, b \in ValInputs}
              \cup {[gen |-> NoGiven.gen, val |-> b, state |-> st, useHeld |-> FALSE, url |-> EMPTY] :
                      b \in ValInputs, st \in StateInputs(SECRET)}
  /\ last = NoResult

NextLib ==
  \/ \E d \in TickSteps : Tick(d)
  \/ given.useHeld /\ LibGenerateState
  \/ LibValidateState

SpecLib == InitLib /\ [][NextLib]_vars

\* the validator of lib/validate-url.ts on its own: the string is drawn at
\* the start
InitUrl ==
  /\ phase = "new"
  /\ this = defaultSettings
  /\ now = 0
  /\ ticks = 0
  /\ pending = NoCall
  /\ held = NoHeld
  /\ flights = [c \in {1, 2} |-> NoFlight]
  /\ issued = {}
  /\ given \in {[NoGiven EXCEPT !.url = u] : u \in UrlInputs}
  /\ last = NoResult

NextUrl == LibValidateUrl

SpecUrl == InitUrl /\ [][NextUrl]_vars

\* discovery and the authorization URL
RelSets ==
  {<< >>,
   << <<"authorization_endpoint", <<AUTH2, AUTH>> >> >>,
   << <<"authorization_endpoint", <<AUTH>> >>, <<"token_endpoint", <<TOKEN>> >> >>,
   << <<"token_endpoint", <<TOKEN>> >> >>}

Webs ==
  {(ME_SLASH :> a) @@ (WWW :> b) @@ (FINAL :> Page(200, << <<"authorization_endpoint", <<AUTH>> >> >>)) :
     a \in {Page(200, r) : r \in RelSets}
            \cup {Redirect(st, WWW) : st \in {301, 302, 307, 308}}
            \cup {Page(404, << >>), Down},
     b \in {Page(200, r) : r \in RelSets}
            \cup {Redirect(301, FINAL), Redirect(301, ME_SLASH), Page(500, << >>), Down}}

DiscoveryUrls == {ME, WWW, NO_SCHEME}

\* two sites, each advertising its own authorization endpoint
OverlapWeb ==
  (ME_SLASH :> Page(200, << <<"authorization_endpoint", <<AUTH>> >> >>))
    @@ (WWW :> Page(200, << <<"authorization_endpoint", <<AUTH2>> >> >>))
    @@ (FINAL :> Down)
ExtraRels == {<< >>, <<"micropub", "microsub">>}

\* the instances discovery and getAuthUrl are called on
AuthSettings ==
  [me : {ME},
   clientId : {CLIENT},
   redirectUri : {REDIRECT},
   authEndpoint : {AUTH, EMPTY},
   tokenEndpoint : {TOKEN},
   state : {<<"1234">>, EMPTY},
   secret : {SECRET, EMPTY},
   codeVerifier : {<<"1234">>, EMPTY}]

NextRels ==
  \/ \E s \in AuthSettings : Constructor(s)
  \/ \E v \in {ME, WWW} : Set("me", v)
  \/ \E u \in DiscoveryUrls, x \in ExtraRels : GetRelsFromUrlStart(u, x)
  \/ \E web \in Webs : DiscoveryFetched(web)
  \/ \E g \in ScrapeOutcomes : DiscoveryScraped(g)

SpecRels == Init /\ [][NextRels]_vars

ResponseTypeArgs == {Undefined, Str(<<"id">>), Str(<<"code">>)}
ScopeArgs == {<< >>, << <<"create">> >>, << <<"create">>, <<"update">> >>}

\* what callers assign between the calls
AuthFieldInputs(f) ==
  CASE f = "state" -> {EMPTY}
    [] f = "secret" -> {SECRET}
    [] f = "codeVerifier" -> {<<"5678">>}

\* the web when getAuthUrl is called
AuthWebs ==
  {(ME_SLASH :> a) @@ (WWW :> Down) @@ (FINAL :> Down) :
     a \in {Page(200, << <<"authorization_endpoint", <<AUTH>> >> >>), Down}}

NextAuth ==
  \/ \E s \in AuthSettings : Constructor(s)
  \/ \E f \in {"state", "secret", "codeVerifier"} : \E v \in AuthFieldInputs(f) : Set(f, v)
  \/ Tick(TIMEOUT)
  \/ GetRelsFromUrlStart(ME, << >>)
  \/ \E web \in AuthWebs : DiscoveryFetched(web)
  \/ \E g \in {"nothing", "both"} : DiscoveryScraped(g)
  \/ \E a \in ResponseTypeArgs, sc \in ScopeArgs : GetAuthUrlStart(a, sc, "salt1")
  \/ AutoGenerateState("salt1")
  \/ \E g \in Garbage : ValidateState(this.state, g)

SpecAuth == Init /\ [][NextAuth]_vars

\* two getRelsFromUrl calls on one instance, overlapping or one after the other
NextOverlap ==
  \/ \E s \in AuthSettings : Constructor(s)
  \/ \E c \in {1, 2}, u \in DiscoveryUrls : RelsCall(c, u)
  \/ \E c \in {1, 2}, web \in AuthWebs \cup {OverlapWeb}, g \in ScrapeOutcomes : RelsAdvance(c, web, g)

SpecOverlap == Init /\ [][NextOverlap]_vars

\* the instance's own state strings
NextState ==
  \/ \E s \in UserSettings : Constructor(s)
  \/ \E f \in {"me", "clientId", "secret"} : \E v \in FieldInputs(f) : Set(f, v)
  \/ \E salt \in Salts : GenerateState(salt)
  \/ AutoGenerateState("salt1")
  \/ \E st \in InstanceStateInputs \cup {held.state}, g \in Garbage : ValidateState(st, g)

SpecState == Init /\ [][NextState]_vars

\* the instance's own state strings as time passes and as the secret and the
\* client id are changed
NextFresh ==
  \/ \E s \in AuthSettings : Constructor(s)
  \/ \E v \in {EMPTY, SECRET, SECRET2} : Set("secret", v)
  \/ \E v \in {CLIENT, CLIENT2} : Set("clientId", v)
  \/ Tick(TIMEOUT)
  \/ GenerateState("salt1")
  \/ AutoGenerateState("salt1")
  \/ \E st \in {held.state, <<"invalid">>}, g \in Garbage : ValidateState(st, g)

SpecFresh == Init /\ [][NextFresh]_vars

-----------------------------------------------------------------------------
(* Properties of getToken and verifyCode, checked under Spec               *)

GetTokenAnswered ==
  last.op = "getToken" /\ last.outcome \in {"resolved", "rejected"} /\ last.resp # NoResp

VerifyCodeAnswered ==
  last.op = "verifyCode" /\ last.outcome \in {"resolved", "rejected"} /\ last.resp # NoResp

RespMe == Get(last.resp.body, "me")

\* the response's me is a URL with the hostname of the configured me
SameHostname ==
  /\ RespMe.t = "string"
  /\ URLParse(RespMe.s).ok
  /\ URLParse(last.before.me).ok
  /\ URLParse(RespMe.s).hostname = URLParse(last.before.me).hostname

\* C1: getToken never returns an access token when the hostname of the
\* response's me differs from the hostname of the configured me, and when the
\* hostnames are equal it never rejects on account of the me values (scheme,
\* port and path may differ).
C1_HostnameGate ==
  GetTokenAnswered =>
    /\ last.outcome = "resolved" => SameHostname
    /\ SameHostname => last.cause \notin {"The me values do not share the same hostname", "Invalid URL"}

\* C1 witness: a token was returned although the response's me differs from
\* the configured me in scheme, port and path, the hostname being the same.
C1_Witness ==
  /\ GetTokenAnswered
  /\ last.outcome = "resolved"
  /\ last.val = Str(<<"token123">>)
  /\ URLParse(RespMe.s).protocol # URLParse(last.before.me).protocol
  /\ URLParse(RespMe.s).port # URLParse(last.before.me).port
  /\ URLParse(RespMe.s).pathname # URLParse(last.before.me).pathname

\* C2: getToken resolves with the response's access_token whenever the body
\* carries me, scope and access_token, carries neither error nor
\* error_description, and its me has the hostname of the configured me.
C2_ResolvesOnGoodResponse ==
  (/\ GetTokenAnswered
   /\ ~last.resp.failed
   /\ {"me", "scope", "access_token"} \subseteq Keys(last.resp.body)
   /\ "error" \notin Keys(last.resp.body)
   /\ "error_description" \notin Keys(last.resp.body)
   /\ SameHostname)
  => /\ last.outcome = "resolved"
     /\ last.val = Get(last.resp.body, "access_token")

\* C3: verifyCode resolves with the response's me whenever the endpoint
\* answers 2xx with a body without error and error_description whose me
\* equals the configured me once trailing slashes are stripped from both.
C3_ResolvesOnMatchingMe ==
  (/\ VerifyCodeAnswered
   /\ ~last.resp.failed
   /\ last.resp.status \in 200..299
   /\ "error" \notin Keys(last.resp.body)
   /\ "error_description" \notin Keys(last.resp.body)
   /\ RespMe.t = "string"
   /\ StripTrailingSlashes(RespMe.s) = StripTrailingSlashes(last.before.me))
  => /\ last.outcome = "resolved"
     /\ last.val = RespMe

-----------------------------------------------------------------------------
(* Properties of the codec of lib/state.ts, checked under SpecLib          *)

LibValidated == last.op = "lib.validateState"

\* the string validated is a ciphertext sealed under the secret given
Opens == IsCipher(last.arg) /\ CipherKey(last.arg) = last.args.secret

\* what is sealed in the string validated
Payload == JSONparse(CipherMessage(last.arg))

\* the string validated is the one generateState returned, and clientId,
\* secret and me are the ones it was generated with
SameArguments ==
  /\ given.useHeld
  /\ last.arg = held.state
  /\ last.args.clientId = held.clientId
  /\ last.args.secret = held.secret
  /\ last.args.me = Str(held.me)

\* C4: validating a state produced by generateState with the same clientId,
\* secret and me, within the freshness window, succeeds and returns a token
\* whose me and clientId are the originals and whose date is a number not
\* later than now.
C4_RoundTrip ==
  (LibValidated /\ SameArguments /\ last.at - held.at <= TIMEOUT)
  => /\ last.outcome = "returned"
     /\ Get(last.obj, "me") = Str(held.me)
     /\ Get(last.obj, "clientId") = Str(held.clientId)
     /\ Get(last.obj, "date").t = "number"
     /\ Get(last.obj, "date").n <= last.at

\* C4 witness: a generated state validated later, inside the window, with the
\* arguments it was generated with.
C4_Witness ==
  /\ LibValidated
  /\ SameArguments
  /\ last.at > held.at
  /\ last.at - held.at <= TIMEOUT
  /\ last.outcome = "returned"

\* the payload has the three fields with their types
WellFormed ==
  /\ Opens
  /\ Payload.ok
  /\ {"date", "me", "clientId"} \subseteq Keys(Payload.obj)
  /\ Get(Payload.obj, "date").t = "number"
  /\ Get(Payload.obj, "me").t = "string"
  /\ Get(Payload.obj, "clientId").t = "string"

Age == last.at - Get(Payload.obj, "date").n

IdentityMatches ==
  /\ last.args.me = Undefined \/ Get(Payload.obj, "me") = last.args.me
  /\ Get(Payload.obj, "clientId") = Str(last.args.clientId)

\* C7: validateState accepts a token exactly when now - date <= 10 minutes
\* (a token exactly 10 minutes old is accepted); an older token fails with
\* 'State has expired' whether or not its me and clientId match.
C7_FreshnessWindow ==
  (LibValidated /\ WellFormed)
  => /\ Age > 600000 => last.outcome = "threw" /\ last.message = "State has expired"
     /\ Age <= 600000 => /\ last.message # "State has expired"
                         /\ IdentityMatches => last.outcome = "returned"

\* C7 witness: a token exactly 10 minutes old was accepted.
C7_Witness ==
  /\ LibValidated
  /\ WellFormed
  /\ Age = 600000
  /\ last.outcome = "returned"

\* the checks a payload fails, numbered in the order of the claim
FailedChecks ==
  LET o == Payload.obj
  IN (IF ~({"date", "me", "clientId"} \subseteq Keys(o)) THEN {1} ELSE {})
     \cup (IF \/ Get(o, "date").t # "number"
              \/ Get(o, "me").t # "string"
              \/ Get(o, "clientId").t # "string" THEN {2} ELSE {})
     \cup (IF Get(o, "date").t = "number" /\ last.at - Get(o, "date").n > 600000
           THEN {3} ELSE {})
     \cup (IF last.args.me # Undefined /\ Get(o, "me") # last.args.me THEN {4} ELSE {})
     \cup (IF Get(o, "clientId") # Str(last.args.clientId) THEN {5} ELSE {})

CheckError ==
  <<"State is missing required properties", "State has invalid property types",
    "State has expired", "State me does not match", "State clientId does not match">>

\* C8: validateState reports the first failing check in the order missing
\* field, wrong field type, expiry, me mismatch, clientId mismatch: a token
\* failing several checks yields the error of the earliest one.
C8_FirstFailingCheck ==
  (LibValidated /\ Opens /\ Payload.ok)
  => IF FailedChecks = {}
     THEN last.outcome = "returned"
     ELSE /\ last.outcome = "threw"
          /\ last.message = CheckError[CHOOSE i \in FailedChecks : \A j \in FailedChecks : i <= j]

\* C8 witness: an expired token bound to another me and another clientId
\* was refused as expired.
C8_Witness ==
  /\ LibValidated
  /\ Opens
  /\ Payload.ok
  /\ {3, 4, 5} \subseteq FailedChecks
  /\ last.message = "State has expired"

\* C9: validateState with another secret than the one the token was
\* generated with, or on a string that is no token, fails with the error
\* 'Invalid state'.
C9_InvalidStateError ==
  (LibValidated /\ ~Opens) => last.outcome = "threw" /\ last.message = "Invalid state"

-----------------------------------------------------------------------------
(* Properties of the instance's generateState and validateState, checked   *)
(* under SpecState                                                         *)

\* C5: on an instance with me, clientId and secret set,
\* validateState(generateState()) returns an object whose me is the
\* configured me and whose clientId is the configured clientId.
C5_InstanceRoundTrip ==
  (/\ last.op = "validateState"
   /\ held.by = "instance"
   /\ last.arg = held.state
   /\ last.at = held.at
   /\ last.before.me = held.me
   /\ last.before.clientId = held.clientId
   /\ last.before.secret = held.secret)
  => /\ last.val = Str(<<"object">>)
     /\ Get(last.obj, "me") = Str(last.before.me)
     /\ Get(last.obj, "clientId") = Str(last.before.clientId)

\* C6: the state string generateState returns is the serialization of
\* {date, me, clientId} encrypted under the configured secret: the secret is
\* the key and is no part of the payload.
C6_SealedUnderSecret ==
  (last.op = "generateState" /\ last.outcome = "returned")
  => LET c == last.val.s
         payload == JSONparse(CipherMessage(c)).obj
     IN /\ IsCipher(c)
        /\ CipherKey(c) = last.before.secret
        /\ payload = << <<"date", Num(last.at)>>, <<"me", Str(last.before.me)>>,
                        <<"clientId", Str(last.before.clientId)>> >>
        /\ \A i \in 1..Len(payload) : payload[i][2] # Str(last.before.secret)

-----------------------------------------------------------------------------
(* Properties of the configuration, checked under Spec                     *)

\* C10: in every state after construction, whatever setters and calls ran,
\* each of me, clientId, redirectUri, authEndpoint and tokenEndpoint holds an
\* absolute URL whose scheme is http or https.
C10_HttpFieldsOnly ==
  phase = "ready" =>
    \A f \in UrlFields : /\ URLParse(this[f]).ok
                         /\ URLParse(this[f]).protocol \in {"http:", "https:"}

-----------------------------------------------------------------------------
(* Properties of the validator of lib/validate-url.ts, checked under       *)
(* SpecUrl                                                                 *)

\* the string is an absolute URL whose scheme is http or https
IsHttpUrl(url) == URLParse(url).ok /\ URLParse(url).protocol \in {"http:", "https:"}

\* C11: validateUrl returns true for every string that parses as an absolute
\* URL with scheme http or https, and throws 'Invalid URL' for every other
\* string: another scheme, no scheme, or malformed syntax.
C11_HttpOnly ==
  last.op = "lib.validateUrl"
  => IF IsHttpUrl(last.arg)
     THEN last.outcome = "returned"
     ELSE last.outcome = "threw" /\ last.message = "Invalid URL"

-----------------------------------------------------------------------------
(* Properties of the setters and of the constructor, checked under Spec    *)

\* C12: assigning an invalid value (not an absolute http or https URL) to me,
\* clientId, redirectUri, authEndpoint or tokenEndpoint throws and leaves
\* every field as it was; assigning a valid value changes that field only;
\* secret, state and codeVerifier accept any string.
C12_SettersAllOrNothing ==
  last.op = "set"
  => IF last.field \in UrlFields /\ ~IsHttpUrl(last.arg)
     THEN last.outcome = "threw" /\ this = last.before
     ELSE last.outcome = "returned" /\ this = [last.before EXCEPT ![last.field] = last.arg]

\* the settings of the README's setup: clientId, redirectUri, me and secret
ReadmeSetup(options) ==
  /\ \A f \in {"clientId", "redirectUri", "me"} : IsHttpUrl(options[f])
  /\ options.secret # EMPTY
  /\ \A f \in {"authEndpoint", "tokenEndpoint", "state", "codeVerifier"} : options[f] = EMPTY

\* C13: constructing a client with only clientId, redirectUri, me and secret
\* supplied succeeds and yields an instance holding them, whose authEndpoint,
\* tokenEndpoint, state and codeVerifier are empty.
C13_ReadmeSetupConstructs ==
  (last.op = "constructor" /\ ReadmeSetup(last.before))
  => /\ last.outcome = "returned"
     /\ phase = "ready"
     /\ this = last.before

-----------------------------------------------------------------------------
(* Properties of discovery, checked under SpecRels                         *)

\* getRelsFromUrl got the answer to its fetch and has settled
RelsAnswered ==
  /\ last.op = "getRelsFromUrl"
  /\ last.outcome \in {"resolved", "rejected"}
  /\ last.call.op = "getRelsFromUrl"

\* the URL getRelsFromUrl fetched, and what its server answers
FetchedUrl == last.call.url
FetchedPage == PageAt(last.web, FetchedUrl)

\* where a chain of permanent redirects starting at url ends
RECURSIVE PermanentEnd(_, _, _)
PermanentEnd(web, url, hops) ==
  IF hops > 0 /\ PageAt(web, url).status \in {301, 308}
  THEN PermanentEnd(web, PageAt(web, url).location, hops - 1)
  ELSE url

RedirectTarget == PermanentEnd(last.web, FetchedUrl, Cardinality(DOMAIN last.web))

\* C14: when fetching A yields a permanent redirect (301 or 308) to B and B
\* answers 2xx, getUrlWithRedirects returns B as the final URL with B's
\* content and getRelsFromUrl(A) sets me to B; along a chain of permanent
\* redirects the last target becomes me.
C14_PermanentRedirectMovesMe ==
  (/\ RelsAnswered
   /\ FetchedPage.status \in {301, 308}
   /\ PageAt(last.web, RedirectTarget).status \in 200..299)
  => /\ getUrlWithRedirects(FetchedUrl, last.web)
          = [threw |-> FALSE, message |-> "", status |-> 0, url |-> RedirectTarget,
             text |-> PageAt(last.web, RedirectTarget).rels]
     /\ this.me = RedirectTarget

\* C15: when fetching A yields a temporary redirect (302 or 307) to B and B
\* answers 2xx, getUrlWithRedirects returns B's content paired with A, and
\* getRelsFromUrl(A) leaves me equal to A.
C15_TemporaryRedirectKeepsMe ==
  (/\ RelsAnswered
   /\ FetchedPage.status \in {302, 307}
   /\ PageAt(last.web, FetchedPage.location).status \in 200..299)
  => /\ getUrlWithRedirects(FetchedUrl, last.web)
          = [threw |-> FALSE, message |-> "", status |-> 0, url |-> FetchedUrl,
             text |-> PageAt(last.web, FetchedPage.location).rels]
     /\ this.me = FetchedUrl

\* getRelsFromUrl has settled after the scraper answered with relations
RelsScraped ==
  /\ RelsAnswered
  /\ last.call.stage = "scrape"
  /\ last.scraped # "rejects"

\* what the final response advertises is what the scraper finds at the final
\* URL; rel is among the relations it advertises
Advertised == ScrapedRels(last.scraped)
FinalAdvertises(rel) == FirstOrNull(Advertised, rel) # Null

\* C16: getRelsFromUrl fails with the error 'No authorization endpoint found'
\* whenever the final response advertises no authorization_endpoint relation,
\* and authEndpoint and tokenEndpoint are then not modified.
C16_NoAuthorizationEndpoint ==
  (/\ RelsScraped
   /\ ~FinalAdvertises("authorization_endpoint"))
  => /\ last.outcome = "rejected"
     /\ "No authorization endpoint found" \in {last.message, last.cause}
     /\ this.authEndpoint = last.before.authEndpoint
     /\ this.tokenEndpoint = last.before.tokenEndpoint

\* the relations asked for
ToFind == <<"authorization_endpoint", "token_endpoint">> \o last.call.extraRels

\* C17: when the final response advertises an authorization_endpoint but no
\* token_endpoint (or lacks a requested extra relation), getRelsFromUrl
\* succeeds: authEndpoint becomes the first authorization_endpoint value,
\* tokenEndpoint is unchanged when none is advertised, and the object returned
\* maps every relation asked for to its first value, or to null when it was
\* not found.
C17_PartialDiscoverySucceeds ==
  (/\ RelsScraped
   /\ FinalAdvertises("authorization_endpoint")
   /\ validateUrl(FirstOrNull(Advertised, "authorization_endpoint").s)
   /\ \E i \in 2..Len(ToFind) : ~FinalAdvertises(ToFind[i]))
  => /\ last.outcome = "resolved"
     /\ Str(this.authEndpoint) = FirstOrNull(Advertised, "authorization_endpoint")
     /\ ~FinalAdvertises("token_endpoint") => this.tokenEndpoint = last.before.tokenEndpoint
     /\ last.obj = [i \in 1..Len(ToFind) |-> <<ToFind[i], FirstOrNull(Advertised, ToFind[i])>>]

-----------------------------------------------------------------------------
(* Properties of getAuthUrl, checked under SpecAuth                        *)

\* getAuthUrl has settled
AuthUrlSettled == last.op = "getAuthUrl" /\ last.outcome \in {"resolved", "rejected"}
AuthUrlReturned == last.op = "getAuthUrl" /\ last.outcome = "resolved"

\* What the authorization endpoint reads from the URL it is sent: the
\* parameters of the query in order, each value decoded
Unescape(tok) ==
  IF \E i \in 1..Len(Escapes) : Escapes[i][2] = tok
  THEN Escapes[CHOOSE i \in 1..Len(Escapes) : Escapes[i][2] = tok][1]
  ELSE tok

RECURSIVE MergeSchemes(_)
MergeSchemes(str) ==
  IF str = << >> THEN << >>
  ELSE IF Len(str) >= 2 /\ str[2] = ":" /\ \E i \in 1..Len(SchemeNames) : SchemeNames[i][2] = str[1]
  THEN <<SchemeNames[CHOOSE i \in 1..Len(SchemeNames) : SchemeNames[i][2] = str[1]][1]>>
         \o MergeSchemes(SubSeq(str, 3, Len(str)))
  ELSE <<str[1]>> \o MergeSchemes(Tail(str))

FormDecode(str) == MergeSchemes([i \in 1..Len(str) |-> Unescape(str[i])])

RECURSIVE SplitParams(_)
SplitParams(query) ==
  IF query = << >> THEN << >>
  ELSE LET end == FirstIn(query, {"&"}, 1)
           param == SubSeq(query, 1, end - 1)
       IN << <<param[1], FormDecode(SubSeq(param, 3, Len(param)))>> >>
            \o SplitParams(SubSeq(query, end + 1, Len(query)))

SentParams == SplitParams(SubSeq(last.ret, IndexOf(last.ret, "?", 1) + 1, Len(last.ret)))
SentTo == SubSeq(last.ret, 1, IndexOf(last.ret, "?", 1) - 1)

\* the values sent under a name, in order
ParamsNamed(name) ==
  LET sel == SelectSeq(SentParams, LAMBDA pr : pr[1] = name)
  IN [i \in 1..Len(sel) |-> sel[i][2]]

\* C18: getAuthUrl called with state empty and secret, me and clientId set
\* stores an auto-derived state on the instance, which validateState on the
\* same instance accepts (within the freshness window), and sends it as the
\* state parameter; called with a non-empty state it leaves state unchanged
\* and sends it as it is.
C18_AutoState ==
  /\ (AuthUrlSettled /\ last.before.state = EMPTY
        /\ \A f \in {"secret", "me", "clientId"} : last.before[f] # EMPTY)
     => /\ IsCipher(this.state)
        /\ held.by = "getAuthUrl" /\ held.state = this.state /\ held.at = last.at
        /\ last.outcome = "resolved" => ParamsNamed("state") = <<this.state>>
  /\ (AuthUrlSettled /\ last.before.state # EMPTY)
     => /\ this.state = last.before.state
        /\ last.outcome = "resolved" => ParamsNamed("state") = <<last.before.state>>
  /\ (/\ last.op = "validateState"
      /\ held.by = "getAuthUrl"
      /\ last.arg = held.state
      /\ last.before.me = held.me
      /\ last.before.clientId = held.clientId
      /\ last.before.secret = held.secret
      /\ last.at - held.at <= TIMEOUT)
     => last.val = Str(<<"object">>)

\* C18 witness: a state derived by getAuthUrl was later accepted by
\* validateState on the same instance, which still holds it.
C18_Witness ==
  /\ last.op = "validateState"
  /\ held.by = "getAuthUrl"
  /\ last.arg = held.state
  /\ this.state = held.state
  /\ last.at > held.at
  /\ last.val = Str(<<"object">>)

\* the parameters getAuthUrl is to send first, in order
ExpectedParams ==
  << <<"me", this.me>>, <<"client_id", this.clientId>>, <<"redirect_uri", this.redirectUri>>,
     <<"response_type", IF last.arg = <<"undefined">> THEN <<"id">> ELSE last.arg>>,
     <<"state", this.state>> >>
    \o (IF Len(last.call.scopes) > 0
        THEN << <<"scope", JoinSpace(last.call.scopes)>> >> ELSE << >>)

\* C19: getAuthUrl returns the authorization endpoint URL extended with the
\* query parameters me, client_id, redirect_uri, response_type (default 'id')
\* and state, in that order and with the configured values, followed by scope
\* (the scopes joined by single spaces) exactly when a scope is given.
C19_QueryParameters ==
  AuthUrlReturned
  => /\ SentTo = URLParse(this.authEndpoint).href
     /\ Len(SentParams) >= Len(ExpectedParams)
     /\ SubSeq(SentParams, 1, Len(ExpectedParams)) = ExpectedParams
     /\ ParamsNamed("scope") = (IF Len(last.call.scopes) > 0
                                THEN <<JoinSpace(last.call.scopes)>> ELSE << >>)

\* C19 witness: a URL returned for the default response type with two scopes,
\* sent as 'create update'.
C19_Witness ==
  /\ AuthUrlReturned
  /\ last.arg = <<"undefined">>
  /\ ParamsNamed("response_type") = << <<"id">> >>
  /\ ParamsNamed("scope") = << <<"create", " ", "update">> >>

\* C20: getAuthUrl appends code_challenge_method=S256 and code_challenge, last
\* and in that order, exactly when responseType is 'code' and codeVerifier is
\* not empty; the code challenge is the URL-encoded hash of the configured
\* codeVerifier, the same for the same verifier and different for different
\* verifiers.
C20_CodeChallenge ==
  /\ AuthUrlReturned
     => IF last.call.responseType = <<"code">> /\ this.codeVerifier # EMPTY
        THEN SubSeq(SentParams, Len(ExpectedParams) + 1, Len(SentParams))
               = << <<"code_challenge_method", <<"S256">> >>,
                    <<"code_challenge", encodeURIComponent(SHA256hex(this.codeVerifier))>> >>
        ELSE /\ Len(SentParams) = Len(ExpectedParams)
             /\ ParamsNamed("code_challenge_method") = << >>
             /\ ParamsNamed("code_challenge") = << >>
  /\ \A a, b \in issued : (a.verifier = b.verifier) <=> (a.challenge = b.challenge)

\* C20 witness: two URLs with code challenges were returned, for two
\* different verifiers.
C20_Witness ==
  /\ AuthUrlReturned
  /\ ParamsNamed("code_challenge_method") = << <<"S256">> >>
  /\ \E a, b \in issued : a.verifier # b.verifier /\ a.challenge # b.challenge

\* getAuthUrl was called for the code flow without a scope, and has settled
ScopesRefused ==
  AuthUrlSettled /\ last.call.responseType = <<"code">> /\ Len(last.call.scopes) = 0

ScopesMessage == "You need to provide some scopes when using response type \"code\""

\* no request was issued for the call and no URL was built
NothingSent == pending = NoCall /\ last.web = NoWeb /\ last.ret = EMPTY

\* C21 (as stated): getAuthUrl called with responseType 'code' and an empty
\* scopes list fails with the error 'You need to provide some scopes when
\* using response type "code"', without issuing any network request and
\* without building a URL.
C21_ScopesRequired ==
  ScopesRefused
  => /\ last.outcome = "rejected"
     /\ last.message = ScopesMessage
     /\ NothingSent

\* C21 (amended): getAuthUrl called with responseType 'code' and an empty
\* scopes list fails without issuing any network request and without building
\* a URL; the error is the one about scopes when me and state are set (state
\* possibly auto-derived by the call), and the missing-required-options error
\* naming what is missing among me and state otherwise.
C21_ScopesRequiredOnceStateIsSet ==
  ScopesRefused
  => /\ last.outcome = "rejected"
     /\ NothingSent
     /\ IF this.me # EMPTY /\ this.state # EMPTY
        THEN last.message = ScopesMessage /\ last.missing = << >>
        ELSE /\ last.missing = SelectSeq(<<"me", "state">>, LAMBDA f : this[f] = EMPTY)
             /\ last.message = "Missing required options: state"

\* C21 witness: a call for the code flow without scopes, on an instance whose
\* state the call itself derived, was refused with the error about scopes.
C21_Witness ==
  /\ ScopesRefused
  /\ last.message = ScopesMessage
  /\ last.before.state = EMPTY
  /\ this.state # EMPTY

-----------------------------------------------------------------------------
(* Further properties of getToken and verifyCode, checked under Spec       *)

\* C22: getToken fails, returning no token, whenever the token endpoint's
\* response lacks any one of me, scope or access_token.
C22_FailsOnMissingField ==
  (/\ GetTokenAnswered
   /\ ~last.resp.failed
   /\ \E key \in {"me", "scope", "access_token"} : Get(last.resp.body, key) = Undefined)
  => /\ last.outcome = "rejected"
     /\ last.val = Undefined

-----------------------------------------------------------------------------
(* Further properties of the instance's validateState, checked under       *)
(* SpecFresh                                                               *)

\* The state string handed to validateState is one the instance must refuse:
\* it is no ciphertext, or it is the string the instance generated and since
\* then it has expired, or the secret or the clientId of the instance changed.
Refusable ==
  \/ ~IsCipher(last.arg)
  \/ /\ held.by = "instance"
     /\ last.arg = held.state
     /\ \/ last.at - held.at > TIMEOUT
        \/ held.secret # last.before.secret
        \/ held.clientId # last.before.clientId

\* the options validateState requires that are not set
Unset == SelectSeq(<<"secret", "clientId">>, LAMBDA f : last.before[f] = EMPTY)

\* C23: the instance method validateState returns false, and never throws, for
\* every state string that is corrupted, expired, generated under a different
\* secret, or bound to a different clientId, provided secret and clientId are
\* configured; it throws the missing-options error only when secret or
\* clientId is unset.
C23_FalseNeverThrows ==
  last.op = "validateState"
  => IF Unset # << >>
     THEN /\ last.outcome = "threw"
          /\ last.missing = Unset
          /\ last.message = "Missing required options: secret"
     ELSE /\ last.outcome = "returned"
          /\ Refusable => last.val = Str(<<"false">>)

\* C23 witnesses: each kind of refusable string was refused with false
C23_Witness ==
  /\ last.op = "validateState"
  /\ last.outcome = "returned"
  /\ last.val = Str(<<"false">>)
  /\ held.by = "instance"
  /\ last.arg = held.state
  /\ last.at - held.at > TIMEOUT
  /\ held.secret = last.before.secret
  /\ held.clientId = last.before.clientId
  /\ held.me = last.before.me

-----------------------------------------------------------------------------
(* Properties of checkRequiredOptions, checked under Spec                  *)

\* the names joined by ', '
RECURSIVE Listed(_)
Listed(names) ==
  IF Len(names) = 1 THEN names[1] ELSE names[1] \o ", " \o Listed(Tail(names))

\* the options asked for that are empty when checkRequiredOptions is called
AskedAndEmpty == SelectSeq(last.arg, LAMBDA f : last.before[f] = EMPTY)

\* C24: checkRequiredOptions returns true when every named option is
\* non-empty, and otherwise throws an IndieAuthError whose message is 'Missing
\* required options: ' followed by all the missing option names, in the order
\* requested, joined by ', '; it modifies no field.
C24_MissingOptionsListed ==
  last.op = "checkRequiredOptions"
  => /\ this = last.before
     /\ IF AskedAndEmpty = << >>
        THEN last.outcome = "returned" /\ last.val = Str(<<"true">>)
        ELSE /\ last.outcome = "threw"
             /\ last.message = "Missing required options: " \o Listed(AskedAndEmpty)

\* C24 witness: asked for state, codeVerifier and secret with only the
\* codeVerifier set, checkRequiredOptions named state and secret.
C24_Witness ==
  /\ last.op = "checkRequiredOptions"
  /\ last.arg = <<"state", "codeVerifier", "secret">>
  /\ last.message = "Missing required options: state, secret"

-----------------------------------------------------------------------------
(* Further properties of discovery, checked under SpecRels                 *)

\* where the redirects starting at url lead after at most hops of them
RECURSIVE RedirectEnd(_, _, _)
RedirectEnd(web, url, hops) ==
  IF hops > 0 /\ PageAt(web, url).status \in {301, 302, 307, 308}
  THEN RedirectEnd(web, PageAt(web, url).location, hops - 1)
  ELSE url

\* the redirects starting at the URL fetched never end: after as many hops as
\* there are servers, the answer is still a redirect
RedirectCycle ==
  PageAt(last.web, RedirectEnd(last.web, FetchedUrl, Cardinality(DOMAIN last.web))).status
    \in {301, 302, 307, 308}

\* C25: getUrlWithRedirects terminates on every redirect chain, including a
\* cycle such as A -> B -> A: it follows at most a fixed number of hops and
\* beyond that fails with a 'Too many redirects' error instead of recursing
\* further.
C25_TooManyRedirects ==
  (RelsAnswered /\ RedirectCycle)
  => /\ last.outcome = "rejected"
     /\ getUrlWithRedirects(FetchedUrl, last.web).threw
     /\ "Too many redirects" \in {last.message, last.cause,
                                  getUrlWithRedirects(FetchedUrl, last.web).message}

\* C26: getUrlWithRedirects fails immediately, with an error carrying the
\* HTTP status, for every response whose status is neither 2xx nor
\* 301/302/307/308 (e.g. 404 or 500), and for a transport failure; it never
\* returns such a response's body as discovered content.
C26_FailsWithStatus ==
  (RelsAnswered /\ FetchedPage.status \notin (200..299) \cup {301, 302, 307, 308})
  => LET r == getUrlWithRedirects(FetchedUrl, last.web)
     IN /\ r.threw
        /\ last.outcome = "rejected"
        /\ FetchedPage.status # 0 => r.message = "Error getting " /\ r.status = FetchedPage.status

-----------------------------------------------------------------------------
(* Properties of overlapping discovery calls, checked under SpecOverlap    *)

\* what the scraper finds at each of the two sites
SiteScraped(url) == IF url = ME_SLASH THEN "both" ELSE "all"

\* the two calls taken through the steps of a schedule, each step letting one
\* call go on to its next suspension, on the web of two sites
RECURSIVE Run(_, _)
Run(st, schedule) ==
  IF schedule = << >> THEN st
  ELSE Run(Advance(st, Head(schedule), OverlapWeb, SiteScraped(st.flights[Head(schedule)].url)),
           Tail(schedule))

\* every order in which the two steps of each call can be taken
Schedules ==
  {sch \in [1..4 -> {1, 2}] : Cardinality({k \in 1..4 : sch[k] = 1}) = 2}

\* the authorization endpoint a call discovered
Discovered(fl) == Get(fl.found, "authorization_endpoint")

\* both calls have completed; me is the final URL of one call and authEndpoint
\* is the endpoint the other discovered
Mixed(st) ==
  \E i, j \in {1, 2} :
    /\ i # j
    /\ st.flights[i].stage = "done" /\ st.flights[j].stage = "done"
    /\ st.this.me = st.flights[i].url
    /\ st.flights[j].outcome = "resolved"
    /\ Discovered(st.flights[j]) = Str(st.this.authEndpoint)
    /\ Discovered(st.flights[i]) # Discovered(st.flights[j])

\* both calls are suspended at their fetch, for different URLs
BothFetching ==
  /\ flights[1].stage = "fetch" /\ flights[2].stage = "fetch"
  /\ flights[1].url # flights[2].url

\* both calls have completed, one wholly after the other, and c is the later
Serialized(c) ==
  /\ flights[1].stage = "done" /\ flights[2].stage = "done"
  /\ ~flights[1].overlapped /\ ~flights[2].overlapped
  /\ flights[c].order = 2

\* C27: two overlapping getRelsFromUrl calls for different URLs on the same
\* instance can interleave at their suspension points so that, after both
\* complete, me is the final URL of one call while authEndpoint is the endpoint
\* discovered by the other; when the calls are serialized, me and authEndpoint
\* always come from the same (last) call.
C27_SerializedAlwaysLastCall ==
  /\ BothFetching
     => \E schedule \in Schedules : Mixed(Run([this |-> this, flights |-> flights], schedule))
  /\ \A c \in {1, 2} :
       (Serialized(c) /\ EMPTY \notin {flights[1].url, flights[2].url}
                      /\ flights[1].url # flights[2].url)
       => /\ this.me = flights[c].url
          /\ Str(this.authEndpoint) = Discovered(flights[c])

\* C27 amended: two overlapping calls can interleave so that me is the final
\* URL of one and authEndpoint the endpoint discovered by the other; when the
\* calls are serialized and the last call resolves, me and authEndpoint both
\* come from that call; a call that fails at its fetch assigns nothing, and
\* a call that is not overlapped and fails once its fetch was answered
\* leaves me at its own final URL, whichever call authEndpoint comes from.
C27_InterleavedWrites ==
  /\ [](/\ BothFetching
           => \E schedule \in Schedules :
                Mixed(Run([this |-> this, flights |-> flights], schedule))
        /\ \A c \in {1, 2} :
             (Serialized(c) /\ flights[c].outcome = "resolved")
             => /\ this.me = flights[c].url
                /\ Str(this.authEndpoint) = Discovered(flights[c]))
  /\ [][\A c \in {1, 2} :
          /\ (flights[c].stage = "fetch" /\ flights'[c].stage = "done") => this' = this
          /\ (/\ flights[c].stage = "scrape" /\ ~flights[c].overlapped
              /\ flights'[c].stage = "done" /\ flights'[c].outcome = "rejected")
             => this'.me = flights[c].url]_vars

\* C27 witness: both calls have completed after overlapping, and me is the
\* final URL of one while authEndpoint is the endpoint the other discovered.
C27_Witness ==
  /\ flights[1].overlapped /\ flights[2].overlapped
  /\ Mixed([this |-> this, flights |-> flights])

-----------------------------------------------------------------------------
(* Further properties of verifyCode, checked under Spec                    *)

\* the body carries the field with some text
Carries(body, key) == Get(body, key).t = "string" /\ Get(body, key).s # EMPTY

\* C28: verifyCode reports the specific cause of a failure: a response body
\* carrying error_description or error fails with that text as the message, a
\* non-2xx response fails with an error carrying the HTTP status, a response
\* without me fails with the missing-me message, and a me that differs after
\* trailing-slash stripping fails with 'The me values did not match'.
C28_SpecificCause ==
  (VerifyCodeAnswered /\ ~last.resp.failed)
  => LET body == last.resp.body
     IN IF last.resp.status \notin 200..299
        THEN last.outcome = "rejected" /\ last.status = last.resp.status
        ELSE IF Carries(body, "error_description")
        THEN last.outcome = "rejected"
             /\ last.message = Joined(Get(body, "error_description").s)
        ELSE IF Carries(body, "error")
        THEN last.outcome = "rejected" /\ last.message = Joined(Get(body, "error").s)
        ELSE IF Get(body, "me") = Undefined
        THEN last.outcome = "rejected"
             /\ last.message = "The auth endpoint did not return the \"me\" parameter while verifying the code"
        ELSE StripTrailingSlashes(Get(body, "me").s) # StripTrailingSlashes(last.before.me)
             => last.outcome = "rejected" /\ last.message = "The me values did not match"

-----------------------------------------------------------------------------
(* Further properties of getAuthUrl, checked under SpecAuth                *)

\* getAuthUrl was called with no state set and without what it takes to
\* derive one
Underivable ==
  /\ AuthUrlSettled
  /\ last.before.state = EMPTY
  /\ \E f \in {"secret", "me", "clientId"} : last.before[f] = EMPTY

\* C29: when the instance's state is empty and secret (or me or clientId) is
\* unset, the auto-derivation step of getAuthUrl raises no error of its own and
\* leaves state empty; getAuthUrl then fails with the missing-required-options
\* error naming state, before any network request is issued.
C29_UnderivableStateIsMissing ==
  Underivable
  => /\ this = last.before
     /\ last.outcome = "rejected"
     /\ last.message = "Missing required options: "
                         \o Listed(SelectSeq(<<"me", "state">>, LAMBDA f : last.before[f] = EMPTY))
     /\ \E i \in 1..Len(last.missing) : last.missing[i] = "state"
     /\ NothingSent

\* C29 witness: getAuthUrl on an instance without state and without secret was
\* refused for its missing state.
C29_Witness ==
  /\ Underivable
  /\ last.before.secret = EMPTY
  /\ last.message = "Missing required options: state"
  /\ this.state = EMPTY

-----------------------------------------------------------------------------
(* Properties of the token request, checked under Spec                     *)

\* getToken has sent its request and waits for the answer
TokenRequested == last.op = "getToken" /\ last.outcome = "pending" /\ pending.op = "getToken"

\* the parameters the token endpoint reads from the body of the request
PostedParams == SplitParams(pending.request)

Posted(name, value) == \E i \in 1..Len(PostedParams) : PostedParams[i] = <<name, value>>

\* C30: the token request sent by getToken contains
\* grant_type=authorization_code, me, code, client_id and redirect_uri, and
\* contains a code_verifier parameter exactly when a codeVerifier is configured
\* (non-empty); with no codeVerifier configured no code_verifier parameter is
\* sent.
C30_CodeVerifierWhenConfigured ==
  TokenRequested
  => /\ Posted("grant_type", <<"authorization_code">>)
     /\ Posted("me", last.before.me)
     /\ Posted("code", pending.code)
     /\ Posted("client_id", last.before.clientId)
     /\ Posted("redirect_uri", last.before.redirectUri)
     /\ last.before.codeVerifier # EMPTY => Posted("code_verifier", last.before.codeVerifier)
     /\ last.before.codeVerifier = EMPTY
          => ~\E i \in 1..Len(PostedParams) : PostedParams[i][1] = "code_verifier"

-----------------------------------------------------------------------------
(* Properties of verifyCode without me, checked under Spec                 *)

\* a configuration whose me is unset and whose clientId, redirectUri and
\* endpoints are set
MeUnset(options) ==
  /\ options.me = EMPTY
  /\ \A f \in UrlFields \ {"me"} : IsHttpUrl(options[f])

\* C31: verifyCode invoked on a configuration whose me is unset, with clientId,
\* redirectUri and authEndpoint set, proceeds to the authorization endpoint and
\* on a successful response sets me to the me returned by the endpoint.  Such
\* a configuration can be constructed, passes the options check of verifyCode,
\* and a call on it that resolves has adopted the me of the response.
C31_AdoptsMe ==
  /\ (last.op = "constructor" /\ MeUnset(last.before))
     => /\ last.outcome = "returned"
        /\ checkRequiredOptions(last.before, <<"me", "clientId", "redirectUri", "authEndpoint">>) = << >>
  /\ (last.op = "verifyCode" /\ last.before.me = EMPTY)
     => /\ last.missing = << >>
        /\ last.outcome = "resolved" => Str(this.me) = Get(last.resp.body, "me")

-----------------------------------------------------------------------------
(* Frame of getToken, checked under Spec                                   *)

\* C32: getToken leaves every configuration field unchanged, on success and on
\* failure: no step of getToken changes a field, and after a call that
\* returned a token no field of the instance holds it.
C32_TokenNotRetained ==
  /\ []((GetTokenAnswered /\ last.outcome = "resolved" /\ last.val.t = "string")
          => \A f \in Fields : this[f] # last.val.s)
  /\ [][last'.op = "getToken" => this' = this]_vars

\* C32 witness: getToken returned the token of the response and the fields are
\* those the instance had when the answer came.
C32_Witness ==
  /\ GetTokenAnswered
  /\ last.outcome = "resolved"
  /\ last.val = Str(<<"token123">>)
  /\ this = last.before

-----------------------------------------------------------------------------
(* Discovery that fails after the fetch, checked under SpecRels            *)

\* the GET of a getRelsFromUrl call has just been answered and the call is
\* waiting for the scraper
RelsFetched ==
  /\ last.op = "getRelsFromUrl"
  /\ last.outcome = "pending"
  /\ last.call.stage = "fetch"

\* getRelsFromUrl was rejected after the scraper answered
RelsFailedLate ==
  /\ RelsAnswered
  /\ last.call.stage = "scrape"
  /\ last.outcome = "rejected"

\* the failure is the setter of tokenEndpoint refusing its value, a token
\* endpoint not found included
TokenRefused ==
  /\ last.scraped # "rejects"
  /\ FinalAdvertises("authorization_endpoint")
  /\ validateUrl(FirstOrNull(Advertised, "authorization_endpoint").s)

\* C33 as claimed: getRelsFromUrl assigns me to the final URL before it looks
\* for the authorization endpoint, and a discovery that fails after the fetch
\* leaves me changed while authEndpoint keeps its old value.
C33_MeChangedOnFailedDiscovery ==
  /\ RelsFetched
     => /\ this.me = getUrlWithRedirects(last.call.url, last.web).url
        /\ this.authEndpoint = last.before.authEndpoint
  /\ RelsFailedLate
     => /\ this.me = last.before.me
        /\ this.authEndpoint = last.before.authEndpoint

\* C33 amended: me is assigned the final URL when the GET is answered, before
\* the scraper is called, and a discovery that fails afterwards does not put
\* it back.  authEndpoint and tokenEndpoint keep their values when the scraper
\* rejects or the authorization endpoint is not found or refused by the
\* validator; when it is the token endpoint that is refused (one not found
\* included), authEndpoint has already been changed to the endpoint found and
\* only tokenEndpoint keeps its value.
C33_FailedDiscoveryKeepsWhatItAssigned ==
  /\ RelsFetched
     => /\ this.me = getUrlWithRedirects(last.call.url, last.web).url
        /\ this.authEndpoint = last.before.authEndpoint
        /\ this.tokenEndpoint = last.before.tokenEndpoint
  /\ RelsFailedLate
     => /\ this.me = last.before.me
        /\ this.tokenEndpoint = last.before.tokenEndpoint
        /\ IF TokenRefused
           THEN Str(this.authEndpoint) = FirstOrNull(Advertised, "authorization_endpoint")
           ELSE this.authEndpoint = last.before.authEndpoint

\* C33 witness: a discovery was rejected after its fetch; me is the final URL,
\* which only the discovery can have assigned, and authEndpoint is no longer
\* what it was when the scraper was called.
C33_Witness ==
  /\ RelsFailedLate
  /\ this.me = ME_SLASH
  /\ this.me = last.call.url
  /\ this.authEndpoint # last.before.authEndpoint

-----------------------------------------------------------------------------
(* The auto-derived state over later calls, checked under SpecAuth         *)

\* the instance holds the state getAuthUrl derived
DerivedStateStored ==
  /\ held.by = "getAuthUrl"
  /\ this.state = held.state
  /\ this.state # EMPTY

\* the values a URL carries under the name state
StateSentIn(url) ==
  LET sent == SplitParams(SubSeq(url, IndexOf(url, "?", 1) + 1, Len(url)))
      sel == SelectSeq(sent, LAMBDA pr : pr[1] = "state")
  IN [i \in 1..Len(sel) |-> sel[i][2]]

\* C34: once getAuthUrl has auto-derived a state it stays stored: no step but
\* an assignment to state by the caller changes it, no later call renews its
\* time of derivation, every later getAuthUrl that returns a URL sends that
\* same state, and validateState refuses it once more than ten minutes have
\* passed since it was first derived.
C34_DerivedStateReused ==
  /\ [][DerivedStateStored
          => /\ this'.state # this.state => (last'.op = "set" /\ last'.field = "state")
             /\ this'.state = this.state => held' = held
             /\ (last'.op = "getAuthUrl" /\ last'.outcome = "resolved")
                  => /\ this'.state = this.state
                     /\ StateSentIn(last'.ret) = <<this.state>>]_vars
  /\ []((/\ last.op = "validateState"
         /\ held.by = "getAuthUrl"
         /\ last.arg = held.state
         /\ last.missing = << >>
         /\ last.at - held.at > TIMEOUT)
          => (last.val = Str(<<"false">>) /\ last.cause = "State has expired"))

\* C34 witness: a getAuthUrl call made more than ten minutes after the state
\* was derived returned a URL that carries that state, still stored.
C34_Witness ==
  /\ AuthUrlReturned
  /\ DerivedStateStored
  /\ last.at - held.at > TIMEOUT
  /\ last.before.state = held.state
  /\ StateSentIn(last.ret) = <<held.state>>

====
